---------------------------- MODULE Spec2Model ----------------------------
(***************************************************************************)
(* wb-rules: the ECMAScript rule engine (wbrules/esengine.go) together     *)
(* with the parts of the rule engine it drives (cell model, rule scan,     *)
(* timer registry, cleanup scopes, engine task), as a state machine.       *)
(*                                                                         *)
(* The engine task executes one posted closure at a time; a closure is     *)
(* executed in steps (script statements of a load, rule checks of a scan), *)
(* so that other goroutines (MQTT client, timer goroutines, directory      *)
(* watcher, editor RPC, spawn workers) interleave with it.                 *)
(*                                                                         *)
(* Spec is the engine with every caller; SpecA and SpecB are the engine    *)
(* with the callers that concern one script file each (a.js: timers, a     *)
(* pushbutton, a virtual device, EvalScript; b.js: spawn, the editor).     *)
(* SpecM is the engine loading scripts that require modules (c.js, d.js),  *)
(* SpecP the engine with its persistent storage and EvalScript code that   *)
(* uses it, SpecT the engine loading a script that starts and stops timers *)
(* (t.js) while the timers tick.  SpecQ is EvalScript code that calls      *)
(* publish, SpecR the engine loading rule definitions, good and bad        *)
(* (r.js), SpecE the engine with whenChanged rules and callbacks that      *)
(* raise errors (e.js), SpecL the engine loading and removing a script     *)
(* under the source root (l.js) and one outside of it (o.js).  SpecH is    *)
(* module code asking for local object ids, SpecS the engine reloading     *)
(* scripts while an RPC thread lists the sources, SpecK the engine loading *)
(* scripts that raise errors with tracebacks (k.js, p.js), SpecN two       *)
(* scripts with timers of the same name (a.js, t.js), SpecO two scripts    *)
(* outside of the source root (o.js, p.js), SpecW the editor writing       *)
(* scripts under virtual paths that stay under the source root or leave    *)
(* it.                                                                     *)
(***************************************************************************)
EXTENDS Integers, Sequences, FiniteSets, TLC

(***************************************************************************)
(* Bounds of the model.                                                    *)
(***************************************************************************)
MaxLoads == 2       \* script evaluations (each allocates a script context)
MaxQueue == 1       \* closures waiting for the engine task
MaxWorkers == 1     \* spawned processes in flight

(***************************************************************************)
(* Program constants.                                                      *)
(***************************************************************************)
NO_TIMER_NAME == ""
MIN_INTERVAL_MS == 1
Millisecond == 1000000      \* time.Millisecond, in nanoseconds
NoCtx == 0 - 1      \* no script context
GlobalCtx == 0      \* engine.globalCtx

(***************************************************************************)
(* Script values at the engine boundary: a tagged union.  raw is the       *)
(* MQTT-style payload ("0"/"1" for booleans).                              *)
(***************************************************************************)
BoolV(b) == [tag |-> "bool", raw |-> IF b THEN "1" ELSE "0"]
NumV(s) == [tag |-> "num", raw |-> s]
StrV(s) == [tag |-> "str", raw |-> s]
Undefined == [tag |-> "undef", raw |-> ""]
Nil == [tag |-> "nil", raw |-> ""]

\* ECMAScript ToBoolean of a script value
Truthy(v) ==
    CASE v.tag = "bool" -> v.raw = "1"
      [] v.tag = "num" -> v.raw # "0"
      [] v.tag = "str" -> v.raw # ""
      [] OTHER -> FALSE

(***************************************************************************)
(* Cells.  A cell is (device, control).                                    *)
(***************************************************************************)
SW == <<"e", "sw">>        \* external switch
BTN == <<"e", "btn">>      \* external pushbutton
OUT == <<"v", "out">>      \* control of the device "v" (virtual once defined)
Cells == {SW, BTN, OUT}
NoCell == <<"", "">>

\* the type an external driver publishes for the cell
PublishedType(c) == IF c = BTN THEN "pushbutton" ELSE "switch"

\* Type semantics: switch|wo-switch|alarm -> boolean; text|rgb|unknown ->
\* string; otherwise numeric.
TypedValue(type, raw) ==
    CASE type \in {"switch", "wo-switch", "alarm", "pushbutton"} -> BoolV(raw = "1")
      [] type \in {"text", "rgb", "unknown"} -> StrV(raw)
      [] OTHER -> NumV(raw)

NewCell == [raw |-> "", hasValue |-> FALSE, hasType |-> FALSE,
            type |-> "unknown", virtual |-> FALSE]

\* Completeness: both value and type have been observed
IsComplete(cell) == cell.hasValue /\ cell.hasType

CellValue(cell) == TypedValue(cell.type, cell.raw)

\* payload of a script value written to a cell
Payload(v) == v.raw

(***************************************************************************)
(* Scripts.  A script file is a sequence of top-level statements; the      *)
(* callbacks it passes to the engine are described by what they do.        *)
(***************************************************************************)
\* condition callbacks
NoFn == [fn |-> "none", cell |-> NoCell, timer |-> NO_TIMER_NAME]
FnVal(c) == [fn |-> "val", cell |-> c, timer |-> NO_TIMER_NAME]   \* dev[c]
FnNot(c) == [fn |-> "not", cell |-> c, timer |-> NO_TIMER_NAME]   \* !dev[c]
FnNum(c) == [fn |-> "num", cell |-> c, timer |-> NO_TIMER_NAME]   \* dev[c] ? 1 : 0
FnThrow(c) == [fn |-> "throw", cell |-> c, timer |-> NO_TIMER_NAME] \* dev[c]; throw
FnFiring(n) == [fn |-> "firing", cell |-> NoCell, timer |-> n]    \* timers[n].firing

\* then callbacks
ThenLog == [op |-> "log", cell |-> NoCell, raw |-> "", timer |-> NO_TIMER_NAME]
ThenStop(n) == [op |-> "stopTimer", cell |-> NoCell, raw |-> "", timer |-> n]
ThenWrite(c, raw) == [op |-> "write", cell |-> c, raw |-> raw, timer |-> NO_TIMER_NAME]
ThenThrow == [op |-> "throw", cell |-> NoCell, raw |-> "", timer |-> NO_TIMER_NAME]
ThenSpawn == [op |-> "spawn", cell |-> NoCell, raw |-> "", timer |-> NO_TIMER_NAME]

\* whenChanged values: a string (its '/'-separated segments), a function,
\* an array of those, or anything else
WcNone == [t |-> "none", segs |-> <<>>, f |-> NoFn, elems |-> <<>>]
WcStr(segs) == [t |-> "str", segs |-> segs, f |-> NoFn, elems |-> <<>>]
WcFunc(f) == [t |-> "func", segs |-> <<>>, f |-> f, elems |-> <<>>]
WcArray(elems) == [t |-> "array", segs |-> <<>>, f |-> NoFn, elems |-> elems]

\* the object passed to defineRule; has = the properties it owns
RuleDef(has, when, asSoonAs, whenChanged, then) ==
    [has |-> has, when |-> when, asSoonAs |-> asSoonAs,
     whenChanged |-> whenChanged, cron |-> "", then |-> then]
DefWhen(f, then) == RuleDef({"when", "then"}, f, NoFn, WcNone, then)
DefAsSoonAs(f, then) == RuleDef({"asSoonAs", "then"}, NoFn, f, WcNone, then)
DefWhenChanged(wc, then) == RuleDef({"whenChanged", "then"}, NoFn, NoFn, wc, then)

\* arguments of _wbStartTimer / _wbStopTimer
ArgStr(s) == [t |-> "str", s |-> s, n |-> 0]
ArgNum(n) == [t |-> "num", s |-> "", n |-> n]
ArgFunc == [t |-> "func", s |-> "", n |-> 0]
ArgNaN == [t |-> "nan", s |-> "", n |-> 0]      \* the number NaN

\* statements; caught: the statement is inside try { } catch
NoDef == RuleDef({}, NoFn, NoFn, WcNone, ThenLog)
Stmt(op, name, def, periodic, ms, caught, arg) ==
    [op |-> op, name |-> name, def |-> def, periodic |-> periodic, ms |-> ms,
     caught |-> caught, arg |-> arg]
StDefineRule(name, def) == Stmt("defineRule", name, def, FALSE, 0, FALSE, ArgFunc)
\* try { defineRule(name, def) } catch (e) { log("bad rule") }
StTryDefineRule(name, def) == Stmt("defineRule", name, def, FALSE, 0, TRUE, ArgFunc)
\* startTimer(name, ms) / startTicker(name, ms); with name = NO_TIMER_NAME:
\* setTimeout(runRules, ms) / setInterval(runRules, ms)
StStartTimer(name, ms, periodic) ==
    Stmt("startTimer", name, NoDef, periodic, ms, FALSE, ArgNum(ms))
\* startTimer(name, NaN), e.g. startTimer(name, parseInt(""))
StStartTimerNaN(name, periodic) ==
    Stmt("startTimer", name, NoDef, periodic, 0, FALSE, ArgNaN)
StDefineVirtualDevice == Stmt("defineVirtualDevice", "v", NoDef, FALSE, 0, FALSE, ArgFunc)
\* _wbStopTimer(arg): clearTimeout(id) or timers[name].stop()
StStopTimer(arg) == Stmt("stopTimer", "", NoDef, FALSE, 0, FALSE, arg)
\* require(id), alone or as try { require(id) } catch (e) { log(...) }
StRequire(id, caught) == Stmt("require", id, NoDef, FALSE, 0, caught, ArgFunc)
\* log(msg)
StThrow == Stmt("throw", "", NoDef, FALSE, 0, FALSE, ArgFunc)
StLog(msg) == Stmt("log", msg, NoDef, FALSE, 0, FALSE, ArgFunc)
\* a statement at which LoadScenario may return an error of any kind
StRaise == Stmt("raise", "", NoDef, FALSE, 0, FALSE, ArgFunc)

\* the payloads a device publishes for a control
RawsOf(c) == IF c = SW THEN {"0", "1"} ELSE {"1"}

Paths == {"a.js", "b.js", "c.js", "d.js", "t.js", "r.js", "e.js", "l.js", "o.js",
          "k.js", "p.js", "sub/s.js"}
NoContent == 0
\* the contents a file can have; a content stands for its hash too
\* the content the editor writes
EditorContents == {12}
ContentsOf(path) ==
    CASE path = "a.js" -> {1, 2}
      [] path = "b.js" -> {3}
      [] path = "c.js" -> {4}
      [] path = "d.js" -> {5}
      [] path = "r.js" -> {8}
      [] path = "e.js" -> {9}
      [] path \in {"l.js", "o.js"} -> {10, 11}
      [] path = "k.js" -> {13}
      [] path = "p.js" -> {10, 13}
      [] OTHER -> {6, 7}

Script(content) ==
    CASE content = 1 ->
           << StStartTimer("t", 100, TRUE),
              StDefineRule("tick", DefWhen(FnFiring("t"), ThenLog)),
              StDefineRule("btn", DefWhenChanged(WcStr(<<"e", "btn">>), ThenStop("t"))) >>
      [] content = 2 ->
           << StStartTimer(NO_TIMER_NAME, 0, FALSE),
              StDefineVirtualDevice,
              StDefineRule("edge", DefAsSoonAs(FnVal(SW), ThenWrite(SW, "0"))),
              StDefineRule("lvl", DefWhen(FnNot(SW), ThenWrite(OUT, "1"))) >>
      [] content = 3 ->
           << StDefineRule("num", DefWhen(FnNum(SW), ThenLog)),
              StDefineRule("chg", DefWhenChanged(WcStr(<<"e", "sw">>), ThenSpawn)) >>
      [] content = 4 ->
           << StRequire("m", TRUE),
              StLog("Module loaded"),
              StRequire("m", TRUE),
              StRequire("nf", TRUE),
              StDefineRule("sw", DefWhenChanged(WcStr(<<"e", "sw">>), ThenLog)) >>
      [] content = 5 ->
           << StRequire("sub", FALSE),
              StRequire("m", FALSE),
              StRequire("nf", FALSE),
              StLog("not reached") >>
      [] content = 6 ->
           << StStartTimer("t", 0 - 1, TRUE),
              StStopTimer(ArgNum(0)),
              StStartTimer("t", 2, TRUE),
              StDefineRule("tick", DefWhen(FnFiring("t"), ThenLog)) >>
      [] content = 7 ->
           << StStartTimer(NO_TIMER_NAME, 0, TRUE),
              StStartTimer("u", 1, FALSE),
              StStopTimer(ArgNum(0)),
              StStopTimer(ArgStr("u")),
              StStartTimerNaN("v", FALSE) >>
      [] content = 8 ->
           << StTryDefineRule("nothen", RuleDef({"when"}, FnVal(SW), NoFn, WcNone, ThenLog)),
              StTryDefineRule("two", RuleDef({"when", "asSoonAs", "then"},
                                             FnVal(SW), FnVal(SW), WcNone, ThenLog)),
              StTryDefineRule("none", RuleDef({"then"}, NoFn, NoFn, WcNone, ThenLog)),
              StTryDefineRule("noslash", DefWhenChanged(WcStr(<<"esw">>), ThenLog)),
              StTryDefineRule("badelem",
                  DefWhenChanged(WcArray(<< WcStr(<<"e", "sw">>), WcNone >>), ThenLog)),
              StTryDefineRule("any",
                  DefWhenChanged(WcArray(<< WcStr(<<"e", "sw">>), WcFunc(FnVal(BTN)) >>),
                                 ThenLog)),
              StDefineRule("croncell", RuleDef({"whenChanged", "_cron", "then"}, NoFn, NoFn,
                                               WcStr(<<"e", "sw">>), ThenLog)),
              StLog("not reached") >>
      [] content = 9 ->
           << StDefineRule("boom", DefWhenChanged(WcStr(SW), ThenThrow)),
              StDefineRule("cboom", DefWhen(FnThrow(SW), ThenLog)),
              StDefineRule("s", DefWhenChanged(WcStr(SW), ThenLog)),
              StDefineRule("a", DefWhenChanged(WcArray(<< WcStr(SW) >>), ThenLog)),
              StDefineRule("fs", DefWhenChanged(WcFunc(FnNot(SW)), ThenLog)),
              StDefineRule("fa", DefWhenChanged(WcArray(<< WcFunc(FnNot(SW)) >>),
                                                ThenLog)),
              StDefineRule("bs", DefWhenChanged(WcStr(BTN), ThenLog)),
              StDefineRule("ba", DefWhenChanged(WcArray(<< WcStr(BTN) >>), ThenLog)) >>
      [] content = 10 ->
           << StDefineVirtualDevice,
              StDefineRule("hourly", RuleDef({"_cron", "then"}, NoFn, NoFn, WcNone,
                                             ThenLog)),
              StDefineRule("out", DefWhenChanged(WcStr(OUT), ThenLog)),
              StThrow,
              StLog("not reached") >>
      [] content = 11 ->
           << StStartTimer("lt", 5, TRUE),
              StDefineRule("daily", RuleDef({"_cron", "then"}, NoFn, NoFn, WcNone,
                                            ThenLog)),
              StDefineRule("sw", DefWhen(FnVal(SW), ThenLog)) >>
      [] content = 12 ->
           << StDefineRule("edited", DefWhen(FnVal(SW), ThenLog)) >>
      [] content = 13 ->
           << StDefineRule("k", DefWhen(FnVal(SW), ThenLog)),
              StRaise,
              StLog("not reached") >>
      [] OTHER -> << >>

(***************************************************************************)
(* Modules.  engine.modulesDirs is the configured list of directories; a   *)
(* module file is <dir>/<id>.js and its source a sequence of statements.   *)
(***************************************************************************)
modulesDirs == << "d1", "d2" >>
ModuleIds == {"m", "sub", "nf"}
ModulePath(dir, id) == dir \o "/" \o id \o ".js"
ModulePaths == {ModulePath(modulesDirs[i], id) : i \in 1..Len(modulesDirs), id \in ModuleIds}

\* module.exports = v
StExports(v) == Stmt("exports", "", NoDef, FALSE, v, FALSE, ArgFunc)

\* the source of the module id (the same in every directory that has it)
ModuleSource(id) ==
    CASE id = "m" ->
           << StLog("Module m begin"),
              StRequire("sub", FALSE),
              StLog("Module m init"),
              StExports(42) >>
      [] id = "sub" ->
           << StLog("Module sub init"),
              StExports(7) >>
      [] OTHER -> << >>

(***************************************************************************)
(* State.                                                                  *)
(***************************************************************************)
VARIABLES
    cells,          \* cell model: [Cells -> cell]
    ruleList,       \* rule table, in insertion order
    nextRuleId,     \* engine.nextRuleId
    timers,         \* timer registry: the set of live timer entries
    nextTimerId,    \* next timer id to issue
    currentTimer,   \* name of the timer whose fire is being processed
    ctxTimers,      \* engine.ctxTimers: script context -> set of timer ids
    localCtxs,      \* engine.localCtxs: path -> script context
    threads,        \* heap stash _esThreads: paths that have a thread
    nextCtx,        \* next script context to allocate
    srcCleanup,     \* paths whose cleanup scope holds a source-entry cleanup
    sources,        \* engine.sources: virtual path -> source entry
    currentSource,  \* engine.currentSource
    tracker,        \* content tracker: virtual path -> recorded hash
    lastTracked,    \* observer: the content each file had when it was tracked last
    disk,           \* script files on disk: path -> content
    dirs,           \* directories under the source root made by the editor's writes
    watch,          \* paths the directory watcher has yet to report
    queue,          \* closures posted to the engine task, FIFO
    task,           \* what the engine task is executing
    scanLog,        \* rule checks made by the closure being executed
    mqttOut,        \* messages published by the closure being executed
    workers,        \* spawn worker goroutines
    stoppedByName,  \* ids of timers stopped through _wbStopTimer(name)
    moduleFiles,    \* module files on disk: the paths that can be read
    esModules,      \* heap stash _esModules: module path -> storage object
    modLoaded,      \* Duktape.modLoaded of every script thread
    moduleInits,    \* the module bodies evaluated so far, in order
    engineLog,      \* what the closure being executed logged
    persistentDB,   \* engine.persistentDB
    boltFile,       \* the buckets of the persistent DB file
    kvWritten,      \* the value most recently written to (bucket, key)
    lastOpen,       \* what the last SetPersistentDB call returned
    cronEntries,    \* ids of the rules registered with the cron driver
    filenameMd5s,   \* the cache of getFilenameHash: filename -> hash
    vdevs,          \* ids of the virtual devices defined by module code
    sourcesMtx,     \* who holds engine.sourcesMtx
    listing         \* the call of ListSourceFiles the RPC thread is in

vars == << cells, ruleList, nextRuleId, timers, nextTimerId, currentTimer,
           ctxTimers, localCtxs, threads, nextCtx, srcCleanup, sources,
           currentSource, tracker, lastTracked, disk, dirs, watch, queue, task, scanLog, mqttOut,
           workers, stoppedByName, moduleFiles, esModules, modLoaded, moduleInits,
           engineLog, persistentDB, boltFile, kvWritten, lastOpen, cronEntries,
           filenameMd5s, vdevs, sourcesMtx, listing >>

\* the state of the local object ids
idVars == << filenameMd5s, vdevs >>

\* the state of the RPC thread that lists the sources
rpcVars == << sourcesMtx, listing >>

\* the state of modules and of the persistent storage
hostVars == << moduleFiles, esModules, modLoaded, moduleInits, engineLog,
               persistentDB, boltFile, kvWritten, lastOpen, cronEntries, idVars,
               rpcVars >>

(***************************************************************************)
(* Timer registry.  A registry state is [timers, next, ctxTimers]: the     *)
(* live entries, the next id, and the per-context timer sets that the      *)
(* removal hooks (OnTimerRemoveByIndex) keep up to date.                   *)
(***************************************************************************)
TimerState == [timers |-> timers, next |-> nextTimerId, ctxTimers |-> ctxTimers]

LiveIds(ts) == {e.id : e \in ts}
IdsByName(ts, name) ==
    IF name = NO_TIMER_NAME THEN {} ELSE {e.id : e \in {x \in ts : x.name = name}}

\* removeTimer: drop the entries and run their removal hooks
RemoveTimers(st, ids) ==
    [st EXCEPT
       !.timers = {e \in st.timers : e.id \notin ids},
       !.ctxTimers = [c \in DOMAIN st.ctxTimers |->
            st.ctxTimers[c] \ {e.id : e \in {x \in st.timers :
                                        x.id \in ids /\ x.hook = c}}]]

StopTimerByName(st, name) == RemoveTimers(st, IdsByName(st.timers, name))

StopTimerByIndex(st, id) == RemoveTimers(st, {id} \cap LiveIds(st.timers))

\* StartTimer: ids are issued from a counter that starts at 1
StartTimer(st, name, interval, periodic) ==
    [st EXCEPT
       !.timers = @ \cup {[id |-> st.next, name |-> name, periodic |-> periodic,
                           interval |-> interval, hook |-> NoCtx, armed |-> TRUE,
                           req |-> ArgNum(0), by |-> NoCtx]},
       !.next = @ + 1]

\* OnTimerRemoveByIndex(id, fn) with fn deleting id from the set of ctx
OnTimerRemoveByIndex(st, id, ctx) ==
    [st EXCEPT !.timers = {IF e.id = id THEN [e EXCEPT !.hook = ctx] ELSE e :
                           e \in st.timers}]

\* CheckTimer(name): the timer's fire is being processed
CheckTimer(name) == currentTimer # NO_TIMER_NAME /\ currentTimer = name

(***************************************************************************)
(* esengine.go: timers.                                                    *)
(***************************************************************************)
\* variant: no removal hook is registered
handleTimerCleanupNoHook(st, ctx, timer) ==
    LET dom == DOMAIN st.ctxTimers \cup {ctx}
        s == [c \in dom |-> IF c \in DOMAIN st.ctxTimers THEN st.ctxTimers[c] ELSE {}]
    IN [st EXCEPT
          !.ctxTimers = [c \in dom |-> IF c = ctx THEN s[c] \cup {timer} ELSE s[c]]]

\* handleTimerCleanup(ctx, timer): the id joins the set of the context and
\* the removal hook of the timer takes it out again
handleTimerCleanup(st, ctx, timer) ==
    LET dom == DOMAIN st.ctxTimers \cup {ctx}
        s == [c \in dom |-> IF c \in DOMAIN st.ctxTimers THEN st.ctxTimers[c] ELSE {}]
    IN [OnTimerRemoveByIndex(st, timer, ctx) EXCEPT
          !.ctxTimers = [c \in dom |-> IF c = ctx THEN s[c] \cup {timer} ELSE s[c]]]

\* variant: the timers of the context are left running
runTimerCleanupsNone(st, ctx) == st

\* variant: the timers of all the contexts are stopped
runTimerCleanupsAll(st, ctx) == RemoveTimers(st, LiveIds(st.timers))

runTimerCleanups(st, ctx) ==
    IF ctx \in DOMAIN st.ctxTimers
    THEN RemoveTimers(st, st.ctxTimers[ctx] \cap LiveIds(st.timers))
    ELSE st

\* ECMAScript numbers that IsNumber accepts
IsNumber(arg) == arg.t \in {"num", "nan"}

\* if ms < MIN_INTERVAL_MS { ms = MIN_INTERVAL_MS }: a comparison with NaN
\* is false
ClampInterval(ms) ==
    IF ms.t = "num" /\ ms.n < MIN_INTERVAL_MS THEN ArgNum(MIN_INTERVAL_MS) ELSE ms

\* what the conversion of NaN to time.Duration (an int64) gives: the result
\* depends on the implementation; the least int64 (amd64), for which the
\* least duration of the model stands, and 0 (arm64) are among the results
LeastDuration == 0 - 2147483647
NaNDurations == {LeastDuration, 0}

\* time.Duration(ms * float64(time.Millisecond)), conv being the result the
\* build gives for a value no int64 represents
Duration(ms, conv) == IF ms.t = "num" THEN ms.n * Millisecond ELSE conv

\* variant: the timer of the same name is left running
esWbStartTimerKeepOld(st, ctx, arg0, arg1, periodic, conv) ==
    IF ~IsNumber(arg1) THEN [st |-> st, ret |-> 0]
    ELSE IF arg0.t = "str" /\ arg0.s = "" THEN [st |-> st, ret |-> 0]
    ELSE IF arg0.t \notin {"str", "func"} THEN [st |-> st, ret |-> 0]
    ELSE LET name == IF arg0.t = "str" THEN arg0.s ELSE NO_TIMER_NAME
             timerId == st.next
             st2 == StartTimer(st, name, Duration(ClampInterval(arg1), conv), periodic)
             st3 == [st2 EXCEPT !.timers = {IF e.id = timerId
                                            THEN [e EXCEPT !.req = arg1, !.by = ctx]
                                            ELSE e : e \in @}]
         IN [st |-> handleTimerCleanup(st3, ctx, timerId), ret |-> timerId]

\* variant: the id counter is put back after the start
esWbStartTimerSameId(st, ctx, arg0, arg1, periodic, conv) ==
    IF ~IsNumber(arg1) THEN [st |-> st, ret |-> 0]
    ELSE IF arg0.t = "str" /\ arg0.s = "" THEN [st |-> st, ret |-> 0]
    ELSE IF arg0.t \notin {"str", "func"} THEN [st |-> st, ret |-> 0]
    ELSE LET name == IF arg0.t = "str" THEN arg0.s ELSE NO_TIMER_NAME
             st1 == IF arg0.t = "str" THEN StopTimerByName(st, name) ELSE st
             timerId == st1.next
             st2 == StartTimer(st1, name, Duration(ClampInterval(arg1), conv), periodic)
             st3 == [st2 EXCEPT !.timers = {IF e.id = timerId
                                            THEN [e EXCEPT !.req = arg1, !.by = ctx]
                                            ELSE e : e \in @},
                                !.next = timerId]
         IN [st |-> handleTimerCleanup(st3, ctx, timerId), ret |-> timerId]

\* _wbStartTimer(arg0, arg1, periodic) called in script context ctx:
\* [st |-> registry after the call, ret |-> timer id, or 0 for a host error];
\* req is the interval asked for, recorded beside the timer
esWbStartTimer(st, ctx, arg0, arg1, periodic, conv) ==
    IF ~IsNumber(arg1) THEN [st |-> st, ret |-> 0]
    ELSE IF arg0.t = "str" /\ arg0.s = "" THEN [st |-> st, ret |-> 0]
    ELSE IF arg0.t \notin {"str", "func"} THEN [st |-> st, ret |-> 0]
    ELSE LET name == IF arg0.t = "str" THEN arg0.s ELSE NO_TIMER_NAME
             st1 == IF arg0.t = "str" THEN StopTimerByName(st, name) ELSE st
             timerId == st1.next
             st2 == StartTimer(st1, name, Duration(ClampInterval(arg1), conv), periodic)
             st3 == [st2 EXCEPT !.timers = {IF e.id = timerId
                                            THEN [e EXCEPT !.req = arg1, !.by = ctx]
                                            ELSE e : e \in @}]
         IN [st |-> handleTimerCleanup(st3, ctx, timerId), ret |-> timerId]

\* variant: only numeric ids stop a timer
esWbStopTimerByIdOnly(st, arg0) ==
    CASE arg0.t = "num" -> IF arg0.n = 0 THEN st ELSE StopTimerByIndex(st, arg0.n)
      [] OTHER -> st

\* _wbStopTimer(arg0): the registry after the call
esWbStopTimer(st, arg0) ==
    CASE arg0.t = "num" -> IF arg0.n = 0 THEN st ELSE StopTimerByIndex(st, arg0.n)
      [] arg0.t = "str" -> StopTimerByName(st, arg0.s)
      [] OTHER -> st

\* variant: the answer does not consult the timer being processed
esWbCheckCurrentTimerAlways(name) == BoolV(TRUE)

\* _wbCheckCurrentTimer(name)
esWbCheckCurrentTimer(name) == BoolV(CheckTimer(name))

(***************************************************************************)
(* esengine.go: rule definition.                                           *)
(***************************************************************************)
NoCond == [kind |-> "none", f |-> NoFn, cell |-> NoCell, children |-> <<>>]
NewLevelTriggeredRuleCondition(f) ==
    [kind |-> "level", f |-> f, cell |-> NoCell, children |-> <<>>]
NewEdgeTriggeredRuleCondition(f) ==
    [kind |-> "edge", f |-> f, cell |-> NoCell, children |-> <<>>]
NewCellChangedRuleCondition(cell) ==
    [kind |-> "cellChanged", f |-> NoFn, cell |-> cell, children |-> <<>>]
NewFuncValueChangedRuleCondition(f) ==
    [kind |-> "funcChanged", f |-> f, cell |-> NoCell, children |-> <<>>]
NewOrRuleCondition(conds) ==
    [kind |-> "or", f |-> NoFn, cell |-> NoCell, children |-> conds]
NewCronRuleCondition(spec) ==
    [kind |-> "cron", f |-> NoFn, cell |-> NoCell, children |-> <<>>]

Err == [ok |-> FALSE, cond |-> NoCond]
Ok(cond) == [ok |-> TRUE, cond |-> cond]

\* variant: a cell name is watched through a function of the cell's value
buildSingleWhenChangedAsFunc(wc) ==
    CASE wc.t = "str" ->
           IF Len(wc.segs) < 2 THEN Err
           ELSE Ok(NewFuncValueChangedRuleCondition(
                      [fn |-> "val", cell |-> <<wc.segs[1], wc.segs[2]>>,
                       timer |-> NO_TIMER_NAME]))
      [] wc.t = "func" -> Ok(NewFuncValueChangedRuleCondition(wc.f))
      [] OTHER -> Err

\* strings.SplitN(s, "/", 2) yields two parts iff s has a '/'
buildSingleWhenChangedRuleCondition(wc) ==
    CASE wc.t = "str" ->
           IF Len(wc.segs) < 2 THEN Err
           ELSE Ok(NewCellChangedRuleCondition(<<wc.segs[1], wc.segs[2]>>))
      [] wc.t = "func" -> Ok(NewFuncValueChangedRuleCondition(wc.f))
      [] OTHER -> Err

\* variant: only the first element of an array is watched
buildWhenChangedFirstOnly(def) ==
    LET wc == def.whenChanged IN
    IF wc.t # "array" THEN buildSingleWhenChangedRuleCondition(wc)
    ELSE LET conds == [i \in 1..Len(wc.elems) |->
                          buildSingleWhenChangedRuleCondition(wc.elems[i])]
         IN IF \E i \in 1..Len(conds) : ~conds[i].ok THEN Err
            ELSE Ok(NewOrRuleCondition(<< conds[1].cond >>))

\* variant: the elements of an array are all watched as functions
buildWhenChangedArrayAsFuncs(def) ==
    LET wc == def.whenChanged IN
    IF wc.t # "array" THEN buildSingleWhenChangedRuleCondition(wc)
    ELSE LET conds == [i \in 1..Len(wc.elems) |->
                          buildSingleWhenChangedAsFunc(wc.elems[i])]
         IN IF \E i \in 1..Len(conds) : ~conds[i].ok THEN Err
            ELSE Ok(NewOrRuleCondition([i \in 1..Len(conds) |-> conds[i].cond]))

buildWhenChangedRuleCondition(def) ==
    LET wc == def.whenChanged IN
    IF wc.t # "array" THEN buildSingleWhenChangedRuleCondition(wc)
    ELSE LET conds == [i \in 1..Len(wc.elems) |->
                          buildSingleWhenChangedRuleCondition(wc.elems[i])]
         IN IF \E i \in 1..Len(conds) : ~conds[i].ok THEN Err
            ELSE Ok(NewOrRuleCondition([i \in 1..Len(conds) |-> conds[i].cond]))

\* variant: the first trigger found decides, the others are ignored
buildRuleCondFirstWins(def) ==
    CASE "when" \in def.has -> Ok(NewLevelTriggeredRuleCondition(def.when))
      [] "asSoonAs" \in def.has -> Ok(NewEdgeTriggeredRuleCondition(def.asSoonAs))
      [] "whenChanged" \in def.has -> buildWhenChangedRuleCondition(def)
      [] "_cron" \in def.has -> Ok(NewCronRuleCondition(def.cron))
      [] OTHER -> Err

\* variant: asSoonAs builds a level-triggered condition
buildRuleCondEdgeAsLevel(def) ==
    CASE "when" \in def.has -> Ok(NewLevelTriggeredRuleCondition(def.when))
      [] "asSoonAs" \in def.has -> Ok(NewLevelTriggeredRuleCondition(def.asSoonAs))
      [] "whenChanged" \in def.has -> buildWhenChangedRuleCondition(def)
      [] OTHER -> Err

buildRuleCond(def) ==
    LET hasWhen == "when" \in def.has
        hasAsSoonAs == "asSoonAs" \in def.has
        hasWhenChanged == "whenChanged" \in def.has
        hasCron == "_cron" \in def.has
    IN CASE hasWhen /\ (hasAsSoonAs \/ hasWhenChanged \/ hasCron) -> Err
         [] hasWhen -> Ok(NewLevelTriggeredRuleCondition(def.when))
         [] hasAsSoonAs /\ (hasWhenChanged \/ hasCron) -> Err
         [] hasAsSoonAs -> Ok(NewEdgeTriggeredRuleCondition(def.asSoonAs))
         [] hasWhenChanged /\ hasCron -> Err
         [] hasWhenChanged -> buildWhenChangedRuleCondition(def)
         [] hasCron -> Ok(NewCronRuleCondition(def.cron))
         [] OTHER -> Err

\* the stored state of a condition: the previous result of an edge
\* condition (initially false), the last seen value of a change condition
InitLast(cond) ==
    CASE cond.kind = "edge" -> BoolV(FALSE)
      [] OTHER -> Nil

\* NewRule(engine, ruleId, name, cond, then), defined in context ctx.
\* owner is the cleanup scope the rule is defined under, has the properties
\* of its definition object.
\* prevTrue and prevVal record what earlier checks of the rule observed: an
\* asSoonAs callback returned a true value at the previous check that was
\* not skipped, the value a whenChanged cell had when last seen complete
NewRule(ruleId, name, cond, then, ctx) ==
    [id |-> ruleId, name |-> name, cond |-> cond, then |-> then, ctx |-> ctx,
     last |-> IF cond.kind = "or"
              THEN [i \in 1..Len(cond.children) |-> InitLast(cond.children[i])]
              ELSE << InitLast(cond) >>,
     deps |-> {}, tdeps |-> {}, checked |-> FALSE, owner |-> "",
     has |-> {}, prevTrue |-> FALSE, prevVal |-> Nil]

NoRule == NewRule(0, "", NoCond, ThenLog, NoCtx)

\* the rule id buildRule gives to the rule it builds
BuildRuleId(next) == next

\* variant: the counter is not advanced
BuildRuleNextSame(next) == next

\* the value of engine.nextRuleId after buildRule built a rule
BuildRuleNext(next) == next + 1

\* buildRule(ctx, name, def): [ok, rule, next (engine.nextRuleId afterwards)]
buildRule(ctx, name, def, next) ==
    IF "then" \notin def.has THEN [ok |-> FALSE, rule |-> NoRule, next |-> next]
    ELSE LET c == buildRuleCond(def) IN
         IF ~c.ok THEN [ok |-> FALSE, rule |-> NoRule, next |-> next]
         ELSE [ok |-> TRUE,
               rule |-> NewRule(BuildRuleId(next), name, c.cond, def.then, ctx),
               next |-> BuildRuleNext(next)]

\* what is logged: k = "log" (a message of a script or a module),
\* "search" (a module search), "cached" (a require answered from modLoaded),
\* "error" (a line of the error log)
NoObject == 0
LogLine(k, ctx, id, msg, found, readable) ==
    [k |-> k, ctx |-> ctx, id |-> id, msg |-> msg, ok |-> found.ok,
     filename |-> found.filename, storage |-> found.storage, readable |-> readable]
NotFound == [ok |-> FALSE, filename |-> "", storage |-> NoObject]
Message(ctx, msg) == LogLine("log", ctx, "", msg, NotFound, {})

\* variant: the error of a callback is not logged
CallbackErrorHandlerSilent(log, ctx) == log

\* CallbackErrorHandler(err): engine.Log(ENGINE_LOG_ERROR, "ECMAScript error: ...");
\* the context calls it when a wrapped callback of ctx raised an error
CallbackErrorHandler(log, ctx) ==
    Append(log, LogLine("error", ctx, "", "ECMAScript error", NotFound, {}))

(***************************************************************************)
(* Script calls into the engine.  A call state is                          *)
(* [st (timer registry), cells, out (messages published), workers,         *)
(*  stopped (ids running under a name when its stop() was called),         *)
(*  log (the engine's log)].                                               *)
(***************************************************************************)
CallState == [st |-> TimerState, cells |-> cells, out |-> mqttOut,
              workers |-> workers, stopped |-> stoppedByName, log |-> engineLog]

ControlTopic(c) == "/devices/" \o c[1] \o "/controls/" \o c[2]
Msg(topic, payload, qos, retained) ==
    [topic |-> topic, payload |-> payload, qos |-> qos, retained |-> retained]

(***************************************************************************)
(* esengine.go: publish.  Arguments are script values: strings, numbers    *)
(* (whole ones, and halves for the ones with a fraction), booleans.        *)
(***************************************************************************)
ArgBool(b) == [t |-> "bool", s |-> "", n |-> IF b THEN 1 ELSE 0]
ArgHalves(h) == [t |-> "halves", s |-> "", n |-> h]     \* the number h / 2

\* ctx.ToBoolean
ToBoolean(arg) ==
    CASE arg.t = "bool" -> arg.n = 1
      [] arg.t \in {"num", "halves"} -> arg.n # 0
      [] arg.t = "str" -> arg.s # ""
      [] arg.t = "func" -> TRUE
      [] OTHER -> FALSE

\* int(ctx.ToNumber(-1)): the fraction is discarded (truncation towards zero)
ToInt(arg) ==
    CASE arg.t = "num" -> arg.n
      [] arg.t = "halves" -> IF arg.n >= 0 THEN arg.n \div 2
                             ELSE 0 - ((0 - arg.n) \div 2)
      [] arg.t = "bool" -> arg.n
      [] OTHER -> 0

\* ctx.SafeToString of a payload
SafeToString(arg) ==
    CASE arg.t = "str" -> arg.s
      [] arg.t = "num" /\ arg.n = 0 -> "0"
      [] arg.t = "num" /\ arg.n = 1 -> "1"
      [] arg.t = "bool" -> IF arg.n = 1 THEN "true" ELSE "false"
      [] OTHER -> "NaN"

\* results of a native function
RetOk == "ok"
RetError == "DUK_RET_ERROR"
RetTypeError == "DUK_RET_TYPE_ERROR"

\* publish(args): [ret |-> what the native function returns, out |-> the
\* messages published]; engine.Publish hands the message to the MQTT client
esPublish(out, args) ==
    LET top == Len(args)
        retain == IF top = 4 THEN ToBoolean(args[4]) ELSE FALSE
        top3 == IF top = 4 THEN 3 ELSE top
        qos == IF top3 = 3 THEN ToInt(args[3]) ELSE 0
        top2 == IF top3 = 3 THEN 2 ELSE top3
    IN IF top3 = 3 /\ (qos < 0 \/ qos > 2) THEN [ret |-> RetError, out |-> out]
       ELSE IF top2 # 2 THEN [ret |-> RetError, out |-> out]
       ELSE IF args[1].t # "str" THEN [ret |-> RetTypeError, out |-> out]
       ELSE [ret |-> RetOk,
             out |-> Append(out, Msg(args[1].s, SafeToString(args[2]), qos, retain))]

\* CellProxy.Value(): the typed value; the tracker records the access and
\* whether the cell was incomplete
CellProxyValue(cs, c) ==
    [v |-> CellValue(cs[c]), cells |-> {c}, timers |-> {},
     incomplete |-> ~IsComplete(cs[c])]

\* CellProxy.SetValue(v): a virtual cell publishes on its own topic and
\* updates the mirror; an external cell publishes on .../on only
CellProxySetValue(es, c, v) ==
    IF es.cells[c].virtual
    THEN [es EXCEPT
            !.cells = [@ EXCEPT ![c] = [@ EXCEPT !.raw = Payload(v),
                                                 !.hasValue = TRUE]],
            !.out = Append(@, Msg(ControlTopic(c), Payload(v), 1, TRUE))]
    ELSE [es EXCEPT
            !.out = Append(@, Msg(ControlTopic(c) \o "/on", Payload(v), 1, FALSE))]

\* variant: the read is not reported to the tracker as incomplete
esWbCellObjectValueUntracked(cs, c) == [CellProxyValue(cs, c) EXCEPT !.incomplete = FALSE]

\* _wbCellObject(dev, name).value()
esWbCellObjectValue(cs, c) == CellProxyValue(cs, c)

\* variant: the mirror is written for external cells too
esWbCellObjectSetValueMirror(es, c, v) ==
    [CellProxySetValue(es, c, v) EXCEPT
       !.cells = [@ EXCEPT ![c] = [@ EXCEPT !.raw = Payload(v), !.hasValue = TRUE]]]

\* _wbCellObject(dev, name).setValue({v: v})
esWbCellObjectSetValue(es, c, v) == CellProxySetValue(es, c, v)

\* ids not used by the workers in flight
FreeWorkerIds(ws) == (1..MaxWorkers) \ {w.id : w \in ws}
MinOf(S) == CHOOSE x \in S : \A y \in S : x <= y

\* _wbSpawn(args, callback, ...): starts the worker goroutine; with the
\* process table full the command does not start
esWbSpawn(es, ctx) ==
    IF FreeWorkerIds(es.workers) = {} THEN es
    ELSE [es EXCEPT !.workers = @ \cup {[id |-> MinOf(FreeWorkerIds(es.workers)),
                                         ctx |-> ctx, pc |-> "running"]}]

\* variant: the worker goroutine calls the callback itself
SpawnCallbackDirect == "direct"

\* how the worker goroutine of _wbSpawn invokes the exit callback
SpawnCallbackVia == "CallSync"

\* wrapRuleCondFunc: r, ok := f(nil).(bool); return ok && r
wrapRuleCondFunc(ret) == ret.tag = "bool" /\ ret.raw = "1"

\* a condition callback f(nil), run on cells cs
CallCond(cs, f) ==
    CASE f.fn = "firing" ->
           [v |-> esWbCheckCurrentTimer(f.timer), cells |-> {}, timers |-> {f.timer},
            incomplete |-> FALSE]
      [] f.fn = "val" -> esWbCellObjectValue(cs, f.cell)
      [] f.fn = "not" ->
           [esWbCellObjectValue(cs, f.cell) EXCEPT !.v = BoolV(~Truthy(@))]
      [] f.fn = "num" ->
           [esWbCellObjectValue(cs, f.cell) EXCEPT
              !.v = NumV(IF Truthy(@) THEN "1" ELSE "0")]
      [] f.fn = "throw" -> [esWbCellObjectValue(cs, f.cell) EXCEPT !.v = Undefined]
      [] OTHER -> [v |-> Undefined, cells |-> {}, timers |-> {}, incomplete |-> FALSE]

(***************************************************************************)
(* Rule check.  The result of checking a leaf condition:                   *)
(* ret = what the callback returned, incomplete = it touched an incomplete *)
(* cell, fire, last = the stored state afterwards, args = then's arguments *)
(***************************************************************************)
NoArgs == << Undefined, "", "" >>

CheckLevel(cs, cond, last) ==
    LET call == CallCond(cs, cond.f) IN
    [ret |-> call.v, incomplete |-> call.incomplete,
     fire |-> ~call.incomplete /\ wrapRuleCondFunc(call.v),
     last |-> last, args |-> NoArgs, cells |-> call.cells, timers |-> call.timers]

CheckEdge(cs, cond, last) ==
    LET call == CallCond(cs, cond.f)
        current == wrapRuleCondFunc(call.v)
    IN [ret |-> call.v, incomplete |-> call.incomplete,
        fire |-> ~call.incomplete /\ current /\ last # BoolV(TRUE),
        last |-> IF call.incomplete THEN last ELSE BoolV(current),
        args |-> NoArgs, cells |-> call.cells, timers |-> call.timers]

CheckCellChanged(cs, cond, last) ==
    LET cell == cs[cond.cell]
        v == CellValue(cell)
        fire == IsComplete(cell) /\ (v # last \/ cell.type = "pushbutton")
    IN [ret |-> v, incomplete |-> FALSE, fire |-> fire,
        last |-> IF IsComplete(cell) THEN v ELSE last,
        args |-> << v, cond.cell[1], cond.cell[2] >>,
        cells |-> {cond.cell}, timers |-> {}]

CheckFuncValueChanged(cs, cond, last) ==
    LET call == CallCond(cs, cond.f) IN
    [ret |-> call.v, incomplete |-> call.incomplete,
     fire |-> ~call.incomplete /\ call.v # last,
     last |-> IF call.incomplete THEN last ELSE call.v,
     args |-> << call.v, "", "" >>, cells |-> call.cells, timers |-> call.timers]

\* a cron condition fires only when the cron driver posts its rule
CheckCron(cs, cond, last) ==
    [ret |-> Undefined, incomplete |-> FALSE, fire |-> FALSE, last |-> last,
     args |-> NoArgs, cells |-> {}, timers |-> {}]

CheckCond(cs, cond, last) ==
    CASE cond.kind = "level" -> CheckLevel(cs, cond, last)
      [] cond.kind = "cron" -> CheckCron(cs, cond, last)
      [] cond.kind = "edge" -> CheckEdge(cs, cond, last)
      [] cond.kind = "cellChanged" -> CheckCellChanged(cs, cond, last)
      [] OTHER -> CheckFuncValueChanged(cs, cond, last)

\* an Or condition checks every child, in order, without short-circuit
FirstFiring(rs) == MinOf({i \in 1..Len(rs) : rs[i].fire})

CheckOr(cs, cond, last) ==
    LET rs == [i \in 1..Len(cond.children) |-> CheckCond(cs, cond.children[i], last[i])]
        fire == \E i \in 1..Len(rs) : rs[i].fire
    IN [ret |-> IF fire THEN rs[FirstFiring(rs)].ret ELSE Undefined,
        incomplete |-> \E i \in 1..Len(rs) : rs[i].incomplete,
        fire |-> fire,
        last |-> [i \in 1..Len(rs) |-> rs[i].last],
        args |-> IF fire THEN rs[FirstFiring(rs)].args ELSE NoArgs,
        cells |-> UNION {rs[i].cells : i \in 1..Len(rs)},
        timers |-> UNION {rs[i].timers : i \in 1..Len(rs)}]

\* Rule.Check: the condition's verdict, with the stored state as a list
CheckRule(cs, rule) ==
    IF rule.cond.kind = "or" THEN CheckOr(cs, rule.cond, rule.last)
    ELSE [CheckCond(cs, rule.cond, rule.last[1]) EXCEPT !.last = << @ >>]

\* the then callback of a rule, run in call state es
CallThen(es, rule) ==
    CASE rule.then.op = "stopTimer" ->
           [es EXCEPT !.st = esWbStopTimer(@, ArgStr(rule.then.timer)),
                      !.stopped = @ \cup IdsByName(es.st.timers, rule.then.timer)]
      [] rule.then.op = "write" ->
           esWbCellObjectSetValue(es, rule.then.cell, BoolV(rule.then.raw = "1"))
      [] rule.then.op = "spawn" -> esWbSpawn(es, rule.ctx)
      [] rule.then.op = "throw" -> [es EXCEPT !.log = CallbackErrorHandler(@, rule.ctx)]
      [] OTHER -> es

\* the cell a rule's condition or then callback is about
CondCell(rule) ==
    IF rule.cond.kind = "cellChanged" THEN rule.cond.cell ELSE rule.cond.f.cell

(***************************************************************************)
(* require.  Every script thread is created with a global environment of   *)
(* its own (PushThreadNewGlobalenv), so it has its own Duktape object:     *)
(* modSearch is exported to each, and each has its own modLoaded table.    *)
(* The heap stash, and _esModules in it, is shared by all the threads.     *)
(***************************************************************************)
\* ctx.PushObject(): an object that is none of the objects of the stash
NewObject(stash) ==
    1 + (CHOOSE n \in {stash[p] : p \in DOMAIN stash} :
             \A q \in DOMAIN stash : stash[q] <= n)

\* the directories, as positions in modulesDirs, whose file for id can be read
ReadableDirs(files, id) ==
    {i \in 1..Len(modulesDirs) : ModulePath(modulesDirs[i], id) \in files}

\* variant: the module gets a storage object of its own at every search
ModSearchFreshStorage(stash, files, id) ==
    IF ReadableDirs(files, id) = {}
    THEN [ok |-> FALSE, filename |-> "", storage |-> NoObject, src |-> << >>,
          esModules |-> stash]
    ELSE LET path == ModulePath(modulesDirs[MinOf(ReadableDirs(files, id))], id)
             st1 == [stash EXCEPT ![path] = NewObject(stash)]
         IN [ok |-> TRUE, filename |-> path, storage |-> st1[path],
             src |-> ModuleSource(id), esModules |-> st1]

\* variant: the directories are tried from the last to the first
ModSearchLastDir(stash, files, id) ==
    IF ReadableDirs(files, id) = {}
    THEN [ok |-> FALSE, filename |-> "", storage |-> NoObject, src |-> << >>,
          esModules |-> stash]
    ELSE LET last == CHOOSE i \in ReadableDirs(files, id) :
                         \A j \in ReadableDirs(files, id) : j <= i
             path == ModulePath(modulesDirs[last], id)
             st1 == IF stash[path] = NoObject
                    THEN [stash EXCEPT ![path] = NewObject(stash)]
                    ELSE stash
         IN [ok |-> TRUE, filename |-> path, storage |-> st1[path],
             src |-> ModuleSource(id), esModules |-> st1]

\* variant: the source handed back is that of an empty file
ModSearchNoSource(stash, files, id) ==
    IF ReadableDirs(files, id) = {}
    THEN [ok |-> FALSE, filename |-> "", storage |-> NoObject, src |-> << >>,
          esModules |-> stash]
    ELSE LET path == ModulePath(modulesDirs[MinOf(ReadableDirs(files, id))], id)
             st1 == IF stash[path] = NoObject
                    THEN [stash EXCEPT ![path] = NewObject(stash)]
                    ELSE stash
         IN [ok |-> TRUE, filename |-> path, storage |-> st1[path],
             src |-> << >>, esModules |-> st1]

\* ModSearch(id, require, exports, module) on the heap stash map stash:
\* ok = FALSE is DUK_RET_ERROR; otherwise module.filename, module.storage,
\* the source returned and the stash map afterwards
ModSearch(stash, files, id) ==
    IF ReadableDirs(files, id) = {}
    THEN [ok |-> FALSE, filename |-> "", storage |-> NoObject, src |-> << >>,
          esModules |-> stash]
    ELSE LET path == ModulePath(modulesDirs[MinOf(ReadableDirs(files, id))], id)
             st1 == IF stash[path] = NoObject
                    THEN [stash EXCEPT ![path] = NewObject(stash)]
                    ELSE stash
         IN [ok |-> TRUE, filename |-> path, storage |-> st1[path],
             src |-> ModuleSource(id), esModules |-> st1]

\* the state require works on
ModuleState == [esModules |-> esModules, modLoaded |-> modLoaded,
                inits |-> moduleInits, log |-> engineLog]

\* the thread whose Duktape.modLoaded a require made in context ctx consults
ModLoadedOf(ctx) == ctx

RECURSIVE Require(_, _, _, _)
RECURSIVE EvalModule(_, _, _, _, _, _)

\* the body of module id, from statement pc on, evaluated in context ctx:
\* [ms, threw]
EvalModule(ms, files, ctx, id, src, pc) ==
    IF pc > Len(src) THEN [ms |-> ms, threw |-> FALSE]
    ELSE LET stmt == src[pc] IN
         CASE stmt.op = "log" ->
                EvalModule([ms EXCEPT !.log = Append(@, Message(ctx, stmt.name))],
                           files, ctx, id, src, pc + 1)
           [] stmt.op = "exports" ->
                EvalModule(
                    [ms EXCEPT !.modLoaded =
                        {IF e.ctx = ModLoadedOf(ctx) /\ e.id = id
                         THEN [e EXCEPT !.exports = stmt.ms] ELSE e : e \in @}],
                    files, ctx, id, src, pc + 1)
           [] stmt.op = "require" ->
                LET r == Require(ms, files, ctx, stmt.name) IN
                IF r.threw THEN [ms |-> r.ms, threw |-> TRUE]
                ELSE EvalModule(r.ms, files, ctx, id, src, pc + 1)
           [] OTHER -> EvalModule(ms, files, ctx, id, src, pc + 1)

\* require(id) called in script context ctx: a module the thread has loaded
\* is answered from modLoaded; otherwise modSearch is called and, unless it
\* throws, the module is registered and the source it returned is evaluated
Require(ms, files, ctx, id) ==
    LET cached == {e \in ms.modLoaded : e.ctx = ModLoadedOf(ctx) /\ e.id = id} IN
    IF cached # {}
    THEN LET e == CHOOSE x \in cached : TRUE IN
         [ms |-> [ms EXCEPT !.log = Append(@, LogLine("cached", ctx, id, "", e, {}))],
          threw |-> FALSE]
    ELSE LET found == ModSearch(ms.esModules, files, id)
             line == LogLine("search", ctx, id, "", found, ReadableDirs(files, id))
         IN IF ~found.ok
            THEN [ms |-> [ms EXCEPT !.log = Append(@, line)], threw |-> TRUE]
            ELSE EvalModule(
                    [ms EXCEPT
                       !.esModules = found.esModules,
                       !.modLoaded = @ \cup {[ctx |-> ModLoadedOf(ctx), id |-> id,
                                              ok |-> TRUE,
                                              filename |-> found.filename,
                                              storage |-> found.storage,
                                              exports |-> 0]},
                       !.inits = Append(@, [ctx |-> ctx, id |-> id,
                                            filename |-> found.filename]),
                       !.log = Append(@, line)],
                    files, ctx, id, found.src, 1)

(***************************************************************************)
(* Persistent storage.  A stored value is a JSON text, a sequence of        *)
(* characters; a script value is given by its tag and its characters.      *)
(***************************************************************************)
KvNum(chars) == [tag |-> "num", raw |-> chars]
KvStr(chars) == [tag |-> "str", raw |-> chars]
KvBool(b) == [tag |-> "bool", raw |-> IF b THEN << "1" >> ELSE << "0" >>]
KvNull == [tag |-> "null", raw |-> << >>]
KvUndefined == [tag |-> "undef", raw |-> << >>]
KvNaN == KvNum(<< "N", "a", "N" >>)

\* ctx.JsonEncode(index)
JsonEncode(v) ==
    CASE v.tag = "bool" ->
           IF v.raw = << "1" >> THEN << "t", "r", "u", "e" >>
           ELSE << "f", "a", "l", "s", "e" >>
      [] v.tag = "num" ->
           IF v = KvNaN THEN << "n", "u", "l", "l" >> ELSE v.raw
      [] v.tag = "str" -> << "\"" >> \o v.raw \o << "\"" >>
      [] v.tag = "null" -> << "n", "u", "l", "l" >>
      [] OTHER -> << >>

\* ctx.JsonDecode(-1): [threw, v]
JsonDecode(text) ==
    CASE text = << >> -> [threw |-> TRUE, v |-> KvUndefined]
      [] text = << "t", "r", "u", "e" >> -> [threw |-> FALSE, v |-> KvBool(TRUE)]
      [] text = << "f", "a", "l", "s", "e" >> -> [threw |-> FALSE, v |-> KvBool(FALSE)]
      [] text = << "n", "u", "l", "l" >> -> [threw |-> FALSE, v |-> KvNull]
      [] Head(text) = "\"" ->
           IF Len(text) >= 2 /\ text[Len(text)] = "\""
           THEN [threw |-> FALSE, v |-> KvStr(SubSeq(text, 2, Len(text) - 1))]
           ELSE [threw |-> TRUE, v |-> KvUndefined]
      [] OTHER -> [threw |-> FALSE, v |-> KvNum(text)]

DbFiles == {"f1", "f2"}
Buckets == {"b1", "b2"}
Keys == {"k1", "k2"}

\* a bucket of the DB file: whether it exists, and its key/value pairs
NoBytes == [has |-> FALSE, bytes |-> << >>]
NoBucket == [created |-> FALSE, kv |-> [k \in Keys |-> NoBytes]]
EmptyFile == [b \in Buckets |-> NoBucket]

\* engine.persistentDB: nil, or a DB that is open or has been closed
NilDB == [nil |-> TRUE, file |-> "", open |-> FALSE]
BoltDB(filename) == [nil |-> FALSE, file |-> filename, open |-> TRUE]

\* variant: a second call opens the file again
SetPersistentDBModeReopen(db, filename, lockFree) ==
    IF ~lockFree THEN [db |-> NilDB, err |-> "can't open"]
    ELSE [db |-> BoltDB(filename), err |-> ""]

\* SetPersistentDBMode(filename, mode); lockFree: bolt.Open gets the file
\* lock within its timeout
SetPersistentDBMode(db, filename, lockFree) ==
    IF ~db.nil THEN [db |-> db, err |-> "already opened"]
    ELSE IF ~lockFree THEN [db |-> NilDB, err |-> "can't open"]
    ELSE [db |-> BoltDB(filename), err |-> ""]

\* ClosePersistentDB()
ClosePersistentDB(db) ==
    IF db.nil THEN [db |-> db, err |-> "nothing to close"]
    ELSE [db |-> [db EXCEPT !.open = FALSE], err |-> ""]

\* the transaction of esPersistentSet: CreateBucketIfNotExists, Put
TxPut(file, bucket, key, bytes) ==
    [file EXCEPT ![bucket] =
        [created |-> TRUE,
         kv |-> [@.kv EXCEPT ![key] = [has |-> TRUE, bytes |-> bytes]]]]

\* the transaction of esPersistentGet: Bucket, Get
TxGet(file, bucket, key) ==
    IF ~file[bucket].created THEN NoBytes ELSE file[bucket].kv[key]

\* variant: the value is put into the first bucket, whatever bucket is given
esPersistentSetOneBucket(db, files, bucket, key, value) ==
    IF db.nil
    THEN [threw |-> TRUE, logged |-> TRUE, files |-> files]
    ELSE [threw |-> FALSE, logged |-> FALSE,
          files |-> IF db.open
                    THEN [files EXCEPT ![db.file] =
                              TxPut(@, "b1", key, JsonEncode(value))]
                    ELSE files]

\* _wbPersistentSet(bucket, key, value): [threw, logged, files]; Update on
\* a DB that has been closed returns an error, which is not looked at
esPersistentSet(db, files, bucket, key, value) ==
    IF db.nil
    THEN [threw |-> TRUE, logged |-> TRUE, files |-> files]
    ELSE [threw |-> FALSE, logged |-> FALSE,
          files |-> IF db.open
                    THEN [files EXCEPT ![db.file] =
                              TxPut(@, bucket, key, JsonEncode(value))]
                    ELSE files]

\* _wbPersistentGet(bucket, key): [threw, logged, v]; View on a DB that has
\* been closed does not run the function, and ok stays false
esPersistentGet(db, files, bucket, key) ==
    IF db.nil
    THEN [threw |-> TRUE, logged |-> TRUE, v |-> KvUndefined]
    ELSE LET got == IF db.open THEN TxGet(files[db.file], bucket, key) ELSE NoBytes IN
         IF ~got.has THEN [threw |-> FALSE, logged |-> FALSE, v |-> KvUndefined]
         ELSE [threw |-> JsonDecode(got.bytes).threw, logged |-> FALSE,
               v |-> JsonDecode(got.bytes).v]

\* the code EvalScript is given: one storage call, then log("done")
NoCode == [op |-> "none", bucket |-> "", key |-> "", v |-> KvUndefined]
CodeSet(bucket, key, v) == [op |-> "set", bucket |-> bucket, key |-> key, v |-> v]
CodeGet(bucket, key) == [op |-> "get", bucket |-> bucket, key |-> key, v |-> KvUndefined]

\* the values scripts store, and the (bucket, key) pairs they store them under
KvValues == {KvNum(<< "1" >>), KvStr(<< "1" >>), KvNaN}
KvSlots == {<< "b1", "k1" >>, << "b1", "k2" >>, << "b2", "k1" >>}
KvCodes ==
    {CodeSet(s[1], s[2], v) : s \in KvSlots, v \in KvValues}
        \cup {CodeGet(b, k) : b \in Buckets, k \in Keys}

(***************************************************************************)
(* The engine task and the closures posted to it.                          *)
(***************************************************************************)
\* a path the editor names is the list of its elements; the elements joined
\* by the separator
RECURSIVE PathString(_)
PathString(path) ==
    IF path = << >> THEN ""
    ELSE IF Len(path) = 1 THEN path[1]
    ELSE path[1] \o "/" \o PathString(Tail(path))

Ev(k, cell, raw, id, path) ==
    [k |-> k, cell |-> cell, raw |-> raw, id |-> id, path |-> path, code |-> NoCode]
EvMqttType(c) == Ev("mqttType", c, "", 0, "")
EvMqttValue(c, raw) == Ev("mqttValue", c, raw, 0, "")
EvTimer(id) == Ev("timer", NoCell, "", id, "")
EvLoad(path) == Ev("load", NoCell, "", 0, path)            \* LiveLoadFile
EvWrite(path, content) ==                                    \* LiveWriteScript
    [Ev("write", NoCell, "", content, PathString(path)) EXCEPT !.code = path]
EvRemove(path) == Ev("remove", NoCell, "", 0, path)        \* LiveRemoveFile
EvSpawnCb(w) == Ev("spawncb", NoCell, "", w, "")
EvEval == Ev("eval", NoCell, "", 0, "")                    \* EvalScript
EvEvalKv(code) == [Ev("evalkv", NoCell, "", 0, "") EXCEPT !.code = code]

\* path is the script the closure loads or removes, or the name of the
\* timer it fires; id is the timer or the worker it is about
\* the error a load returns: none, a ScriptError, an error of another kind
NoError == ""
ScriptError == "ScriptError"
FileError == "error"
PathError == "path not under source root"

\* the errors LoadScenario returns: nil, an ESError, an error of another kind
NilError == [kind |-> NoError, message |-> "", traceback |-> << >>]
ESError(message, traceback) ==
    [kind |-> "ESError", message |-> message, traceback |-> traceback]
OtherError(message) == [kind |-> FileError, message |-> message, traceback |-> << >>]
NewScriptError(message, traceback) ==
    [kind |-> ScriptError, message |-> message, traceback |-> traceback]

\* thrown is what LoadScenario returned to the load the task is in
Task(kind, phase, path, content, pc, todo, id) ==
    [kind |-> kind, phase |-> phase, path |-> path, content |-> content,
     pc |-> pc, todo |-> todo, id |-> id, err |-> NoError, traceback |-> << >>,
     thrown |-> NilError]
Idle == Task("idle", "idle", "", NoContent, 0, {}, 0)

\* checkSourcePath(path): the paths of the model are clean; o.js is a script
\* that lies outside engine.sourceRoot
OutsideRoot == {"o.js", "p.js"}
checkSourcePath(path) ==
    [underSourceRoot |-> path \notin OutsideRoot,
     virtualPath |-> IF path \notin OutsideRoot THEN path ELSE ""]

\* engine.sourceRoot, as the list of its elements
SourceRoot == << "rules" >>

\* filepath.Clean, element by element: "." goes, an element goes with the
\* ".." after it, a ".." at the start stays unless the path is rooted
RECURSIVE CleanFrom(_, _, _)
CleanFrom(rooted, done, rest) ==
    IF rest = << >> THEN done
    ELSE LET e == Head(rest)
         IN IF e = "." THEN CleanFrom(rooted, done, Tail(rest))
            ELSE IF e # ".." THEN CleanFrom(rooted, Append(done, e), Tail(rest))
            ELSE IF done # << >> /\ done[Len(done)] # ".."
                 THEN CleanFrom(rooted, SubSeq(done, 1, Len(done) - 1), Tail(rest))
            ELSE IF rooted THEN CleanFrom(rooted, done, Tail(rest))
            ELSE CleanFrom(rooted, Append(done, ".."), Tail(rest))
Clean(rooted, path) == CleanFrom(rooted, << >>, path)

\* filepath.Join(root, path) of a rooted root
Join(root, path) == Clean(TRUE, root \o path)

\* wbgo.IsSubpath(base, path) and filepath.Rel(base, path) of rooted paths
IsSubpath(base, path) == Len(path) >= Len(base) /\ SubSeq(path, 1, Len(base)) = base
Rel(base, path) == SubSeq(path, Len(base) + 1, Len(path))

\* variant: every path counts as being under the source root, and stands
\* for the file of its last element there
checkVirtualPathAnywhere(path) ==
    [cleanPath |-> Append(SourceRoot, path[Len(path)]),
     virtualPath |-> path[Len(path)],
     err |-> NoError]
\* checkVirtualPath(path): [cleanPath, virtualPath, err]
checkVirtualPath(path) ==
    LET physicalPath == Join(SourceRoot, Clean(FALSE, path))
        underSourceRoot == IsSubpath(SourceRoot, physicalPath)
    IN [cleanPath |-> physicalPath,
        virtualPath |-> IF underSourceRoot
                        THEN PathString(Rel(SourceRoot, physicalPath)) ELSE "",
        err |-> IF underSourceRoot THEN NoError ELSE PathError]

\* os.MkdirAll(filepath.Dir(path)): the directories it makes sure are there
MkdirAll(path) ==
    {SubSeq(path, 1, n) : n \in (Len(SourceRoot) + 1)..(Len(path) - 1)}

\* the name of the file at path as Duktape shows it in a traceback
Physical(path) == IF path \in OutsideRoot THEN "/lib/" \o path ELSE "/rules/" \o path

\* the path of the model a file name of a traceback stands for
FramePath(filename) == CHOOSE p \in Paths : Physical(p) = filename

\* a frame of ESError.Traceback; an item of a translated traceback
ESLocation(filename, line) == [filename |-> filename, line |-> line]
LocItem(line, name) == [line |-> line, name |-> name]

NoEntry == [virtualPath |-> "", physicalPath |-> "", devices |-> << >>,
            rules |-> << >>, error |-> FALSE, traceback |-> << >>]
LocFileEntry(virtualPath, path) ==
    [virtualPath |-> virtualPath, physicalPath |-> path, devices |-> << >>,
     rules |-> << >>, error |-> FALSE, traceback |-> << >>]

Init ==
    /\ cells = [c \in Cells |-> NewCell]
    /\ ruleList = << >>
    /\ nextRuleId = 1
    /\ timers = {}
    /\ nextTimerId = 1
    /\ currentTimer = NO_TIMER_NAME
    /\ ctxTimers = [c \in {} |-> {}]
    /\ localCtxs = [p \in Paths |-> NoCtx]
    /\ threads = {}
    /\ nextCtx = 1
    /\ srcCleanup = {}
    /\ sources = [p \in Paths |-> NoEntry]
    /\ currentSource = NoEntry
    /\ tracker = [key \in {checkSourcePath(p).virtualPath : p \in Paths} |-> NoContent]
    /\ lastTracked = [p \in Paths |-> NoContent]
    /\ disk = [p \in Paths |-> NoContent]
    /\ dirs = {}
    /\ watch = {}
    /\ queue = << >>
    /\ task = Idle
    /\ scanLog = << >>
    /\ mqttOut = << >>
    /\ workers = {}
    /\ stoppedByName = {}
    /\ moduleFiles = {ModulePath("d2", "m"), ModulePath("d2", "sub")}
    /\ esModules = [p \in ModulePaths |-> NoObject]
    /\ modLoaded = {}
    /\ moduleInits = << >>
    /\ engineLog = << >>
    /\ persistentDB = NilDB
    /\ boltFile = [f \in DbFiles |-> EmptyFile]
    /\ kvWritten = [f \in DbFiles |-> [s \in Buckets \X Keys |-> KvUndefined]]
    /\ lastOpen = [file |-> "", err |-> ""]
    /\ cronEntries = {}
    /\ filenameMd5s = [f \in {} |-> ""]
    /\ vdevs = {}
    /\ sourcesMtx = "free"
    /\ listing = [pc |-> "idle", pathList |-> << >>, entries |-> << >>]

\* CallSync / WhenReady: the closure waits in the engine task's queue
Post(ev) == /\ Len(queue) < MaxQueue
            /\ queue' = Append(queue, ev)

Pending(k) == {queue[i] : i \in {j \in 1..Len(queue) : queue[j].k = k}}

engineVars == << cells, ruleList, nextRuleId, timers, nextTimerId, currentTimer,
                 ctxTimers, localCtxs, threads, nextCtx, srcCleanup, sources,
                 currentSource, tracker, lastTracked, task, scanLog, mqttOut, stoppedByName,
                 hostVars >>

(***************************************************************************)
(* Other goroutines.                                                       *)
(***************************************************************************)
\* the MQTT client delivers a control's type
MqttType(c) ==
    /\ Post(EvMqttType(c))
    /\ UNCHANGED << engineVars, disk, dirs, watch, workers >>

\* the MQTT client delivers a control's value
MqttValue(c, raw) ==
    /\ Post(EvMqttValue(c, raw))
    /\ UNCHANGED << engineVars, disk, dirs, watch, workers >>

\* a timer goroutine ticks: CallSync(fireTimer(id)); it blocks until the
\* fire has been processed, a one-shot timer ticks once
TimerTick(e) ==
    /\ e.armed
    /\ EvTimer(e.id) \notin Pending("timer")
    /\ ~(task.kind = "timer" /\ task.id = e.id)
    /\ Post(EvTimer(e.id))
    /\ timers' = IF e.periodic THEN timers
                 ELSE (timers \ {e}) \cup {[e EXCEPT !.armed = FALSE]}
    /\ UNCHANGED << cells, ruleList, nextRuleId, nextTimerId, currentTimer, ctxTimers,
                    localCtxs, threads, nextCtx, srcCleanup, sources, currentSource,
                    tracker, lastTracked, disk, dirs, watch, task, scanLog, mqttOut, workers,
                    stoppedByName, hostVars >>

\* the user saves (or touches) a script file
EditFile(path, content) ==
    /\ nextCtx <= MaxLoads
    /\ disk' = [disk EXCEPT ![path] = content]
    /\ watch' = watch \cup {path}
    /\ UNCHANGED << engineVars, dirs, queue, workers >>

\* the user deletes a script file
DeleteFile(path) ==
    /\ disk[path] # NoContent
    /\ disk' = [disk EXCEPT ![path] = NoContent]
    /\ watch' = watch \cup {path}
    /\ UNCHANGED << engineVars, dirs, queue, workers >>

\* the directory watcher reports a path: LiveLoadFile for a file that is
\* there, LiveRemoveFile for one that is gone
WatcherReport(path) ==
    /\ path \in watch
    /\ watch' = watch \ {path}
    /\ Post(IF disk[path] = NoContent THEN EvRemove(path) ELSE EvLoad(path))
    /\ UNCHANGED << engineVars, disk, dirs, workers >>

\* the editor calls LiveWriteScript(path, content), path being the virtual
\* path it names, as the list of its elements
LiveWriteScript(path, content) ==
    /\ nextCtx <= MaxLoads
    /\ Post(EvWrite(path, content))
    /\ UNCHANGED << engineVars, disk, dirs, watch, workers >>

\* EvalScript("timers.t.stop()")
EvalScript ==
    /\ Post(EvEval)
    /\ UNCHANGED << engineVars, disk, dirs, watch, workers >>

(***************************************************************************)
(* The engine task.  It takes one closure at a time from its queue and     *)
(* runs it to completion: phase "eval" evaluates a script statement by     *)
(* statement, phase "scan" checks the candidate rules one by one, phase    *)
(* "done" is the closure returning to whoever posted it.                   *)
(***************************************************************************)
SetCall(es) ==
    /\ timers' = es.st.timers
    /\ nextTimerId' = es.st.next
    /\ ctxTimers' = es.st.ctxTimers
    /\ cells' = es.cells
    /\ mqttOut' = es.out
    /\ workers' = es.workers
    /\ stoppedByName' = es.stopped
    /\ engineLog' = es.log

WhenChangedKinds == {"cellChanged", "funcChanged", "or"}

\* candidate rules, as positions in the rule list
AllRules(rl) == 1..Len(rl)
CellCandidates(rl, c) == {i \in 1..Len(rl) : c \in rl[i].deps \/ ~rl[i].checked}
TimerCandidates(rl, n) ==
    {i \in 1..Len(rl) : /\ rl[i].cond.kind \notin WhenChangedKinds
                        /\ (n = NO_TIMER_NAME \/ n \in rl[i].tdeps \/ ~rl[i].checked)}

\* the model's handler of an incoming MQTT message, then RunRules(cell, "")
BeginMqtt ==
    /\ task = Idle /\ queue # << >> /\ Head(queue).k \in {"mqttType", "mqttValue"}
    /\ LET ev == Head(queue)
           c == ev.cell
       IN /\ cells' = [cells EXCEPT ![c] =
                         IF ev.k = "mqttType"
                         THEN [@ EXCEPT !.hasType = TRUE, !.type = PublishedType(c)]
                         ELSE [@ EXCEPT !.hasValue = TRUE, !.raw = ev.raw]]
          /\ task' = Task("mqtt", "scan", "", NoContent, 0, CellCandidates(ruleList, c), 0)
    /\ queue' = Tail(queue)
    /\ UNCHANGED << ruleList, nextRuleId, timers, nextTimerId, currentTimer, ctxTimers,
                    localCtxs, threads, nextCtx, srcCleanup, sources, currentSource,
                    tracker, lastTracked, disk, dirs, watch, scanLog, mqttOut, workers,
                    stoppedByName, hostVars >>

\* fireTimer(id): a fire of a timer that is no longer registered is dropped;
\* a named timer runs RunRules(nil, name), an anonymous one its callback,
\* which is runRules
BeginTimer ==
    /\ task = Idle /\ queue # << >> /\ Head(queue).k = "timer"
    /\ LET id == Head(queue).id IN
       IF id \notin LiveIds(timers)
       THEN UNCHANGED << task, currentTimer >>
       ELSE LET e == CHOOSE x \in timers : x.id = id IN
            /\ currentTimer' = e.name
            /\ task' = Task("timer", "scan", e.name, NoContent, 0,
                            TimerCandidates(ruleList, e.name), id)
    /\ queue' = Tail(queue)
    /\ UNCHANGED << cells, ruleList, nextRuleId, timers, nextTimerId, ctxTimers,
                    localCtxs, threads, nextCtx, srcCleanup, sources, currentSource,
                    tracker, lastTracked, disk, dirs, watch, scanLog, mqttOut, workers,
                    stoppedByName, hostVars >>

\* the kind of a rule, by the condition property its definition has
IsWhen(r) == "when" \in r.has
IsAsSoonAs(r) == "asSoonAs" \in r.has
IsWhenChanged(r) == "whenChanged" \in r.has

\* the cell the rule's definition names, read before the check
SeenCell(rule) == IF CondCell(rule) = NoCell THEN NewCell ELSE cells[CondCell(rule)]

ObservedTrue(rule, res) ==
    IF IsAsSoonAs(rule) /\ IsComplete(SeenCell(rule)) THEN Truthy(res.ret)
    ELSE rule.prevTrue
ObservedVal(rule) ==
    IF IsWhenChanged(rule) /\ IsComplete(SeenCell(rule))
    THEN CellValue(SeenCell(rule))
    ELSE rule.prevVal

\* what the scan log records about one rule check
LogEntry(rule, res, es) ==
    [id |-> rule.id, name |-> rule.name, has |-> rule.has, kind |-> rule.cond.kind,
     fn |-> rule.cond.f.fn,
     ret |-> res.ret, incomplete |-> res.incomplete, fire |-> res.fire,
     prev |-> rule.last, checked |-> rule.checked,
     prevTrue |-> rule.prevTrue, prevVal |-> rule.prevVal, ftimer |-> rule.cond.f.timer,
     trigName |-> task.path,
     cell |-> CondCell(rule),
     seen |-> SeenCell(rule),
     timer |-> currentTimer, trig |-> task.kind, trigId |-> task.id,
     then |-> rule.then,
     before |-> IF rule.then.cell = NoCell THEN NewCell ELSE cells[rule.then.cell],
     after |-> IF rule.then.cell = NoCell THEN NewCell ELSE es.cells[rule.then.cell],
     pub |-> SubSeq(es.out, Len(mqttOut) + 1, Len(es.out)),
     args |-> res.args, cells |-> cells, last |-> res.last, deps |-> res.cells,
     owner |-> rule.owner]

\* a condition callback of the condition raises an error (the callback
\* then yields no value)
CondThrows(cond) ==
    \/ cond.f.fn = "throw"
    \/ \E i \in 1..Len(cond.children) : cond.children[i].f.fn = "throw"

\* one iteration of the scan loop: check the next candidate, call then if
\* it fires, store the rule's condition state and dependencies
ScanStep ==
    /\ task.phase = "scan" /\ task.todo # {}
    /\ LET i == MinOf(task.todo)
           rule == ruleList[i]
           res == CheckRule(cells, rule)
           cs == IF CondThrows(rule.cond)
                 THEN [CallState EXCEPT !.log = CallbackErrorHandler(@, rule.ctx)]
                 ELSE CallState
           es == IF res.fire THEN CallThen(cs, rule) ELSE cs
       IN /\ SetCall(es)
          /\ ruleList' = [ruleList EXCEPT ![i] =
                             [@ EXCEPT !.last = res.last, !.deps = res.cells,
                                       !.tdeps = res.timers, !.checked = TRUE,
                                       !.prevTrue = ObservedTrue(rule, res),
                                       !.prevVal = ObservedVal(rule)]]
          /\ scanLog' = Append(scanLog, LogEntry(rule, res, es))
          /\ task' = [task EXCEPT !.todo = @ \ {i}]
    /\ UNCHANGED << nextRuleId, currentTimer, localCtxs, threads, nextCtx, srcCleanup,
                    sources, currentSource, tracker, lastTracked, disk, dirs, watch, queue, moduleFiles,
                    esModules, modLoaded, moduleInits, persistentDB, boltFile,
                    kvWritten, lastOpen, cronEntries,
                    idVars, rpcVars >>

\* Refresh(): the cron rules of the rule table are registered anew (then
\* all the rules are scanned)
Refresh(rl) == {rl[i].id : i \in {j \in 1..Len(rl) : rl[j].cond.kind = "cron"}}

\* variant: the notice is published for files outside the source root too
maybePublishUpdateAnywhere(out, subtopic, path) ==
    Append(out, Msg("/wbrules/updates/" \o subtopic, path, 1, FALSE))

\* maybePublishUpdate(subtopic, path)
maybePublishUpdate(out, subtopic, path) ==
    IF checkSourcePath(path).underSourceRoot
    THEN Append(out, Msg("/wbrules/updates/" \o subtopic,
                         checkSourcePath(path).virtualPath, 1, FALSE))
    ELSE out

\* the scan loop is over: a timer fire ends (a one-shot timer is removed),
\* a load or a removal publishes its notice
FinishScan ==
    /\ task.phase = "scan" /\ task.todo = {}
    /\ task' = [task EXCEPT !.phase = "done"]
    /\ currentTimer' = NO_TIMER_NAME
    /\ LET oneShot == {e.id : e \in {x \in timers : x.id = task.id /\ ~x.periodic}}
           st == IF task.kind = "timer" THEN RemoveTimers(TimerState, oneShot)
                 ELSE TimerState
       IN /\ timers' = st.timers
          /\ ctxTimers' = st.ctxTimers
    /\ mqttOut' = CASE task.kind \in {"load", "write"} ->
                         maybePublishUpdate(mqttOut, "changed", task.path)
                    [] task.kind = "remove" ->
                         maybePublishUpdate(mqttOut, "removed", task.path)
                    [] OTHER -> mqttOut
    /\ UNCHANGED << cells, ruleList, nextRuleId, nextTimerId, localCtxs, threads,
                    nextCtx, srcCleanup, sources, currentSource, tracker, lastTracked, disk, dirs, watch,
                    queue, scanLog, workers, stoppedByName, hostVars >>

\* the closure returns; a spawn worker waiting in CallSync goes on
Return ==
    /\ task.phase = "done"
    /\ task' = Idle
    /\ scanLog' = << >>
    /\ mqttOut' = << >>
    /\ engineLog' = << >>
    /\ workers' = IF task.kind = "spawncb"
                  THEN {IF w.id = task.id THEN [w EXCEPT !.pc = "done"] ELSE w :
                        w \in workers}
                  ELSE workers
    /\ UNCHANGED << cells, ruleList, nextRuleId, timers, nextTimerId, currentTimer,
                    ctxTimers, localCtxs, threads, nextCtx, srcCleanup, sources,
                    currentSource, tracker, lastTracked, disk, dirs, watch, queue, stoppedByName,
                    moduleFiles, esModules, modLoaded, moduleInits, persistentDB,
                    boltFile, kvWritten, lastOpen, cronEntries,
                    idVars, rpcVars >>

(***************************************************************************)
(* engine.sourcesMtx and ListSourceFiles, which the RPC thread calls.      *)
(***************************************************************************)
MtxFree == "free"

\* variant: the lock is not taken
LockNever(mtx, who) == [ok |-> TRUE, mtx |-> mtx]

\* sourcesMtx.Lock(): goes on only when the mutex is free
Lock(mtx, who) == [ok |-> mtx = MtxFree, mtx |-> who]

\* sourcesMtx.Unlock()
Unlock(mtx, who) == IF mtx = who THEN MtxFree ELSE mtx

\* the virtual paths that have an entry in engine.sources
SourceKeys(srcs) == {p \in Paths : srcs[p] # NoEntry}

\* the orders in which a range over a map with these keys can yield them
RangeOrders(keys) ==
    {s \in [1..Cardinality(keys) -> keys] : \A i, j \in DOMAIN s : i # j => s[i] # s[j]}

\* a < b on strings
StringOrder == << "a.js", "b.js", "c.js", "d.js", "e.js", "k.js", "l.js", "o.js",
                  "p.js", "r.js", "sub/s.js", "t.js" >>
Rank(a) == CHOOSE i \in DOMAIN StringOrder : StringOrder[i] = a
Less(a, b) == Rank(a) < Rank(b)

\* sort.Strings(list)
RECURSIVE SortStrings(_)
SortStrings(list) ==
    IF list = << >> THEN << >>
    ELSE LET least == CHOOSE i \in DOMAIN list :
                        \A j \in DOMAIN list : ~Less(list[j], list[i])
             rest == [k \in 1..(Len(list) - 1) |->
                        IF k < least THEN list[k] ELSE list[k + 1]]
         IN << list[least] >> \o SortStrings(rest)

\* what a call of ListSourceFiles leaves alone
listedVars == << cells, ruleList, nextRuleId, timers, nextTimerId, currentTimer,
                 ctxTimers, localCtxs, threads, nextCtx, srcCleanup, sources,
                 currentSource, tracker, lastTracked, task, scanLog, mqttOut, stoppedByName,
                 moduleFiles, esModules, modLoaded, moduleInits, engineLog,
                 persistentDB, boltFile, kvWritten, lastOpen, cronEntries, idVars,
                 disk, dirs, watch, queue, workers >>

NotListing == [pc |-> "idle", pathList |-> << >>, entries |-> << >>]

\* ListSourceFiles: sourcesMtx.Lock()
ListLock ==
    /\ listing.pc = "idle"
    /\ Lock(sourcesMtx, "rpc").ok
    /\ sourcesMtx' = Lock(sourcesMtx, "rpc").mtx
    /\ listing' = [listing EXCEPT !.pc = "range"]
    /\ UNCHANGED listedVars

\* ListSourceFiles: the keys of engine.sources are collected and sorted
ListPaths ==
    /\ listing.pc = "range"
    /\ \E order \in RangeOrders(SourceKeys(sources)) :
         listing' = [listing EXCEPT !.pc = "copy", !.pathList = SortStrings(order)]
    /\ UNCHANGED << listedVars, sourcesMtx >>

\* ListSourceFiles: entries[n] = *engine.sources[virtualPath]
ListCopy ==
    /\ listing.pc = "copy" /\ Len(listing.entries) < Len(listing.pathList)
    /\ listing' = [listing EXCEPT
                     !.entries = Append(@, sources[listing.pathList[Len(@) + 1]])]
    /\ UNCHANGED << listedVars, sourcesMtx >>

\* ListSourceFiles returns: the deferred sourcesMtx.Unlock()
ListReturn ==
    /\ listing.pc = "copy" /\ Len(listing.entries) = Len(listing.pathList)
    /\ sourcesMtx' = Unlock(sourcesMtx, "rpc")
    /\ listing' = NotListing
    /\ UNCHANGED listedVars

ListSourceFiles == ListLock \/ ListPaths \/ ListCopy \/ ListReturn

(***************************************************************************)
(* Loading, reloading and removing scripts.                                *)
(***************************************************************************)
removeThreadFromStorage(ths, path) == ths \ {path}

\* cleanup.RunCleanups(path) on the rule list: the rules defined under the
\* scope of path are removed
RunCleanupsRules(rl, path) ==
    LET Keep(r) == r.owner # path IN SelectSeq(rl, Keep)

\* cleanup.RunCleanups(path) on engine.sources: the cleanup that loadScript
\* added deletes the entry
RunCleanupsSources(srcs, scoped, path) ==
    IF path \in scoped THEN [srcs EXCEPT ![path] = NoEntry] ELSE srcs

\* runCleanups(path): the parts of the engine state it rewrites
runCleanups(path) ==
    LET has == localCtxs[path] # NoCtx IN
    [st |-> IF has THEN runTimerCleanups(TimerState, localCtxs[path]) ELSE TimerState,
     threads |-> IF has THEN removeThreadFromStorage(threads, path) ELSE threads,
     ruleList |-> RunCleanupsRules(ruleList, path),
     sources |-> RunCleanupsSources(sources, srcCleanup, path),
     srcCleanup |-> srcCleanup \ {path}]

\* contentTracker.Track(key, path), content being what the file at path
\* holds: [err, changed, tracker]; the hash is recorded under the key
Track(tr, key, path, content) ==
    IF content = NoContent THEN [err |-> TRUE, changed |-> FALSE, tracker |-> tr]
    ELSE [err |-> FALSE, changed |-> tr[key] # content,
          tracker |-> [tr EXCEPT ![key] = content]]

\* variant: a file is loaded whether or not it changed
LoadsScriptAlways(loadIfUnchanged, wasChangedOrFirstSeen) == TRUE

\* loadScript goes on unless !loadIfUnchanged && !wasChangedOrFirstSeen
LoadsScript(loadIfUnchanged, wasChangedOrFirstSeen) ==
    loadIfUnchanged \/ wasChangedOrFirstSeen

\* loadScriptAndRefresh(path, loadIfUnchanged), up to the script's first
\* statement; LiveWriteScript checks the virtual path, returns its error if
\* it has one, and makes the directories and writes the file first if not
BeginLoad ==
    /\ task = Idle /\ queue # << >> /\ Head(queue).k \in {"load", "write"}
    /\ nextCtx <= MaxLoads
    /\ LET ev == Head(queue)
           vp == IF ev.k = "write" THEN checkVirtualPath(ev.code)
                 ELSE [cleanPath |-> << >>, virtualPath |-> ev.path, err |-> NoError]
           path == IF vp.err = NoError THEN vp.virtualPath ELSE ev.path
           loadIfUnchanged == ev.k = "write"
           disk1 == IF ev.k = "write" THEN [disk EXCEPT ![path] = ev.id] ELSE disk
           tr == Track(tracker, checkSourcePath(path).virtualPath, path, disk1[path])
           load == ~tr.err /\ LoadsScript(loadIfUnchanged, tr.changed)
           cl == runCleanups(path)
       IN IF vp.err # NoError
          THEN /\ task' = [Task(ev.k, "done", path, NoContent, 0, {}, 0) EXCEPT
                             !.err = vp.err]
               /\ UNCHANGED << disk, dirs, watch, tracker, lastTracked, timers,
                               ctxTimers, threads, ruleList, sources, srcCleanup,
                               localCtxs, nextCtx, currentSource >>
          ELSE /\ dirs' = IF ev.k = "write" THEN dirs \cup MkdirAll(vp.cleanPath)
                          ELSE dirs
               /\ (load /\ path \in srcCleanup) => Lock(sourcesMtx, "engine").ok
               /\ disk' = disk1
               /\ watch' = IF ev.k = "write" THEN watch \cup {path} ELSE watch
               /\ tracker' = tr.tracker
               /\ lastTracked' = IF tr.err THEN lastTracked
                                 ELSE [lastTracked EXCEPT ![path] = disk1[path]]
               /\ timers' = IF load THEN cl.st.timers ELSE timers
               /\ ctxTimers' = IF load THEN cl.st.ctxTimers ELSE ctxTimers
               /\ threads' = IF load THEN cl.threads \cup {path} ELSE threads
               /\ ruleList' = IF load THEN cl.ruleList ELSE ruleList
               /\ sources' = IF load THEN cl.sources ELSE sources
               /\ srcCleanup' = IF load
                                THEN cl.srcCleanup \cup (IF checkSourcePath(path).underSourceRoot
                                                         THEN {path} ELSE {})
                                ELSE srcCleanup
               /\ localCtxs' = IF load THEN [localCtxs EXCEPT ![path] = nextCtx] ELSE localCtxs
               /\ nextCtx' = IF load THEN nextCtx + 1 ELSE nextCtx
               /\ currentSource' = IF load /\ checkSourcePath(path).underSourceRoot
                                   THEN LocFileEntry(checkSourcePath(path).virtualPath, path)
                                   ELSE currentSource
               /\ task' = IF load THEN Task(ev.k, "eval", path, disk1[path], 1, {}, 0)
                          ELSE [Task(ev.k, "done", path, NoContent, 0, {}, 0) EXCEPT
                                  !.err = IF tr.err THEN FileError ELSE NoError]
    /\ queue' = Tail(queue)
    /\ UNCHANGED << cells, nextRuleId, nextTimerId, currentTimer, scanLog, mqttOut,
                    workers, stoppedByName, hostVars >>

\* DefineVirtualDevice(name, obj): the device's control, with its initial value
DefineVirtualDevice(cs) ==
    [cs EXCEPT ![OUT] = [raw |-> "0", hasValue |-> TRUE, hasType |-> TRUE,
                         type |-> "switch", virtual |-> TRUE]]

\* maybeRegisterSourceItem(ctx, typ, name)
maybeRegisterSourceItem(src, typ, line, name) ==
    IF src = NoEntry THEN src
    ELSE IF typ = "device" THEN [src EXCEPT !.devices = Append(@, << line, name >>)]
    ELSE [src EXCEPT !.rules = Append(@, << line, name >>)]

\* _wbDefineRule(shortName, def) in context ctx of file path:
\* [ok, ruleList, next, src]
esWbDefineRule(ctx, path, line, shortName, def) ==
    LET name == path \o "/" \o shortName
        b == buildRule(ctx, name, def, nextRuleId)
    IN IF ~b.ok
       THEN [ok |-> FALSE, ruleList |-> ruleList, next |-> b.next, src |-> currentSource]
       ELSE [ok |-> TRUE,
             ruleList |-> Append(ruleList, [b.rule EXCEPT !.owner = path,
                                                          !.has = def.has]),
             next |-> b.next,
             src |-> maybeRegisterSourceItem(currentSource, "rule", line, shortName)]

\* variant: the entry of a script that failed lists nothing
\* what LoadScenario can return at the statement at line pc of the script
\* at path: nil, an error of another kind, or an ESError whose traceback
\* has frames of the script, of a library outside of the source root and
\* of another file under it
Raised(path, pc) ==
    LET me == ESLocation(Physical(path), pc)
        lib == ESLocation(Physical("o.js"), 7)
        other == ESLocation(Physical("l.js"), 3)
    IN {NilError, OtherError("read error")}
         \cup {ESError("boom", tb) :
                 tb \in {<< >>, << me >>, << lib >>, << lib, me >>, << me, lib, other >>,
                         << lib, other, lib, me >>}}

\* the frames of a traceback that lie under the source root, each with its
\* line and the virtual path of its file
TranslateTraceback(traceback) ==
    LET Under(loc) == checkSourcePath(FramePath(loc.filename)).underSourceRoot
        kept == SelectSeq(traceback, Under)
    IN [n \in DOMAIN kept |->
          LocItem(kept[n].line, checkSourcePath(FramePath(kept[n].filename)).virtualPath)]

trackESErrorEmptyEntry(src, err) ==
    IF err.kind # "ESError" THEN [src |-> src, err |-> err]
    ELSE LET traceback == TranslateTraceback(err.traceback)
         IN [src |-> IF src = NoEntry THEN src
                     ELSE [src EXCEPT !.error = TRUE, !.traceback = traceback,
                                      !.devices = << >>, !.rules = << >>],
             err |-> NewScriptError(err.message, traceback)]

\* variant: the frames are kept as they are
trackESErrorAllFrames(src, err) ==
    IF err.kind # "ESError" THEN [src |-> src, err |-> err]
    ELSE LET traceback == [n \in DOMAIN err.traceback |->
                             LocItem(err.traceback[n].line, err.traceback[n].filename)]
         IN [src |-> IF src = NoEntry THEN src
                     ELSE [src EXCEPT !.error = TRUE, !.traceback = traceback],
             err |-> NewScriptError(err.message, traceback)]

\* trackESError(path, err): an error that is not an ESError (nil too) is
\* returned as it is; an ESError becomes a ScriptError with the translated
\* traceback, which is stored in the current source entry, if there is one,
\* and returned
trackESError(src, err) ==
    IF err.kind # "ESError" THEN [src |-> src, err |-> err]
    ELSE LET traceback == TranslateTraceback(err.traceback)
         IN [src |-> IF src = NoEntry THEN src
                     ELSE [src EXCEPT !.error = TRUE, !.traceback = traceback],
             err |-> NewScriptError(err.message, traceback)]

\* LoadScenario(path), one top-level statement at a time; a host error or
\* an error that is not caught aborts the script and trackESError records
\* it in the source entry
EvalStatement ==
    /\ task.phase = "eval" /\ task.pc <= Len(Script(task.content))
    /\ \E conv \in IF Script(task.content)[task.pc].arg = ArgNaN THEN NaNDurations
                   ELSE {0} :
       \E thrown \in IF Script(task.content)[task.pc].op = "raise"
                     THEN Raised(task.path, task.pc) ELSE {NilError} :
       LET stmt == Script(task.content)[task.pc]
           ctx == localCtxs[task.path]
           d == esWbDefineRule(ctx, task.path, task.pc, stmt.name, stmt.def)
           t == esWbStartTimer(TimerState, ctx,
                               IF stmt.name = NO_TIMER_NAME THEN ArgFunc
                               ELSE ArgStr(stmt.name),
                               stmt.arg, stmt.periodic, conv)
           r == Require(ModuleState, moduleFiles, ctx, stmt.name)
           ok == CASE stmt.op = "defineRule" -> d.ok \/ stmt.caught
                   [] stmt.op = "throw" -> FALSE
                   [] stmt.op = "raise" -> thrown = NilError
                   [] stmt.op = "startTimer" -> t.ret # 0
                   [] stmt.op = "require" -> ~r.threw \/ stmt.caught
                   [] OTHER -> TRUE
           err == IF ok \/ stmt.op = "raise" THEN thrown
                  ELSE ESError(stmt.op,
                               << ESLocation(Physical(task.path), task.pc) >>)
           src == CASE stmt.op = "defineRule" -> d.src
                    [] stmt.op = "defineVirtualDevice" ->
                         maybeRegisterSourceItem(currentSource, "device", task.pc, stmt.name)
                    [] OTHER -> currentSource
           st == CASE stmt.op = "startTimer" -> t.st
                   [] stmt.op = "stopTimer" -> esWbStopTimer(TimerState, stmt.arg)
                   [] OTHER -> TimerState
           ms == CASE stmt.op = "require" ->
                        IF r.threw /\ stmt.caught
                        THEN [r.ms EXCEPT !.log = Append(@, Message(ctx, "Module not found"))]
                        ELSE r.ms
                   [] stmt.op = "log" ->
                        [ModuleState EXCEPT !.log = Append(@, Message(ctx, stmt.name))]
                   [] stmt.op = "defineRule" /\ ~d.ok /\ stmt.caught ->
                        [ModuleState EXCEPT !.log = Append(@, Message(ctx, "bad rule"))]
                   [] OTHER -> ModuleState
       IN /\ ruleList' = IF stmt.op = "defineRule" THEN d.ruleList ELSE ruleList
          /\ nextRuleId' = IF stmt.op = "defineRule" THEN d.next ELSE nextRuleId
          /\ timers' = st.timers
          /\ nextTimerId' = st.next
          /\ ctxTimers' = st.ctxTimers
          /\ stoppedByName' = IF stmt.op = "stopTimer" /\ stmt.arg.t = "str"
                              THEN stoppedByName \cup IdsByName(timers, stmt.arg.s)
                              ELSE stoppedByName
          /\ cells' = IF stmt.op = "defineVirtualDevice" THEN DefineVirtualDevice(cells)
                      ELSE cells
          /\ esModules' = ms.esModules
          /\ modLoaded' = ms.modLoaded
          /\ moduleInits' = ms.inits
          /\ engineLog' = ms.log
          /\ currentSource' = trackESError(src, err).src
          /\ task' = [task EXCEPT !.pc = IF ok THEN @ + 1
                                        ELSE Len(Script(task.content)) + 1,
                                  !.err = trackESError(src, err).err.kind,
                                  !.traceback = trackESError(src, err).err.traceback,
                                  !.thrown = err]
    /\ UNCHANGED << currentTimer, localCtxs, threads, nextCtx, srcCleanup, sources,
                    tracker, lastTracked, disk, dirs, watch, queue, scanLog, mqttOut, workers,
                    moduleFiles, persistentDB, boltFile, kvWritten, lastOpen, cronEntries,
                    idVars, rpcVars >>

\* loadScript returns (its deferred function stores the source entry), then
\* Refresh() scans all the rules
FinishEval ==
    /\ task.phase = "eval" /\ task.pc > Len(Script(task.content))
    /\ checkSourcePath(task.path).underSourceRoot => Lock(sourcesMtx, "engine").ok
    /\ sources' = IF checkSourcePath(task.path).underSourceRoot
                  THEN [sources EXCEPT ![task.path] = currentSource]
                  ELSE sources
    /\ currentSource' = NoEntry
    /\ cronEntries' = Refresh(ruleList)
    /\ task' = [task EXCEPT !.phase = "scan", !.todo = AllRules(ruleList)]
    /\ UNCHANGED << cells, ruleList, nextRuleId, timers, nextTimerId, currentTimer,
                    ctxTimers, localCtxs, threads, nextCtx, srcCleanup, tracker, lastTracked, disk, dirs,
                    watch, queue, scanLog, mqttOut, workers, stoppedByName,
                    moduleFiles, esModules, modLoaded, moduleInits, engineLog,
                    persistentDB, boltFile, kvWritten, lastOpen,
                    idVars, rpcVars >>

\* LiveRemoveFile's closure: runCleanups, Refresh, the "removed" notice
BeginRemove ==
    /\ task = Idle /\ queue # << >> /\ Head(queue).k = "remove"
    /\ LET path == Head(queue).path
           cl == runCleanups(path)
       IN /\ path \in srcCleanup => Lock(sourcesMtx, "engine").ok
          /\ timers' = cl.st.timers
          /\ ctxTimers' = cl.st.ctxTimers
          /\ threads' = cl.threads
          /\ ruleList' = cl.ruleList
          /\ sources' = cl.sources
          /\ srcCleanup' = cl.srcCleanup
          /\ cronEntries' = Refresh(cl.ruleList)
          /\ task' = Task("remove", "scan", path, NoContent, 0, AllRules(cl.ruleList), 0)
    /\ queue' = Tail(queue)
    /\ UNCHANGED << cells, nextRuleId, nextTimerId, currentTimer, localCtxs, nextCtx,
                    currentSource, tracker, lastTracked, disk, dirs, watch, scanLog, mqttOut, workers,
                    stoppedByName, moduleFiles, esModules, modLoaded, moduleInits,
                    engineLog, persistentDB, boltFile, kvWritten, lastOpen,
                    idVars, rpcVars >>

\* EvalScript's closure: the code "timers.t.stop()" runs in the global context
BeginEval ==
    /\ task = Idle /\ queue # << >> /\ Head(queue).k = "eval"
    /\ LET st == esWbStopTimer(TimerState, ArgStr("t")) IN
       /\ timers' = st.timers
       /\ ctxTimers' = st.ctxTimers
       /\ stoppedByName' = stoppedByName \cup IdsByName(timers, "t")
    /\ task' = Task("eval", "done", "", NoContent, 0, {}, 0)
    /\ queue' = Tail(queue)
    /\ UNCHANGED << cells, ruleList, nextRuleId, nextTimerId, currentTimer, localCtxs,
                    threads, nextCtx, srcCleanup, sources, currentSource, tracker,
                    lastTracked, disk, dirs,
                    watch, scanLog, mqttOut, workers, hostVars >>

(***************************************************************************)
(* spawn: the worker goroutine waits for the process, then has the exit    *)
(* callback called.                                                        *)
(***************************************************************************)
\* the closure esWbSpawn hands to CallSync: callbackFn(args), the script's
\* exit callback (it logs a line), called in the context that spawned
SpawnCallback(log, w) == Append(log, Message(w.ctx, "exit callback"))

\* the process exits; the worker hands the callback to the engine task
\* (CallSync) and waits for it
WorkerExit(w) ==
    /\ w.pc = "running"
    /\ IF SpawnCallbackVia = "CallSync"
       THEN /\ Post(EvSpawnCb(w.id))
            /\ workers' = (workers \ {w}) \cup {[w EXCEPT !.pc = "waiting"]}
       ELSE /\ workers' = (workers \ {w}) \cup {[w EXCEPT !.pc = "callback"]}
            /\ UNCHANGED queue
    /\ UNCHANGED << engineVars, disk, dirs, watch >>

\* the engine task runs the exit callback
BeginSpawnCb ==
    /\ task = Idle /\ queue # << >> /\ Head(queue).k = "spawncb"
    /\ task' = Task("spawncb", "done", "", NoContent, 0, {}, Head(queue).id)
    /\ queue' = Tail(queue)
    /\ LET w == CHOOSE x \in workers : x.id = Head(queue).id IN
       engineLog' = SpawnCallback(engineLog, w)
    /\ UNCHANGED << cells, ruleList, nextRuleId, timers, nextTimerId, currentTimer,
                    ctxTimers, localCtxs, threads, nextCtx, srcCleanup, sources,
                    currentSource, tracker, lastTracked, disk, dirs, watch, scanLog, mqttOut, workers,
                    stoppedByName, moduleFiles, esModules, modLoaded, moduleInits,
                    persistentDB, boltFile, kvWritten, lastOpen, cronEntries,
                    idVars, rpcVars >>

\* the worker goroutine ends
WorkerReturn(w) ==
    /\ w.pc \in {"done", "callback"}
    /\ workers' = workers \ {w}
    /\ UNCHANGED << engineVars, disk, dirs, watch, queue >>

(***************************************************************************)
(* Module files, the persistent DB, storage calls made through EvalScript. *)
(***************************************************************************)
\* the user installs a module file
WriteModuleFile(dir, id) ==
    /\ ModulePath(dir, id) \notin moduleFiles
    /\ moduleFiles' = moduleFiles \cup {ModulePath(dir, id)}
    /\ UNCHANGED << cells, ruleList, nextRuleId, timers, nextTimerId, currentTimer,
                    ctxTimers, localCtxs, threads, nextCtx, srcCleanup, sources,
                    currentSource, tracker, lastTracked, disk, dirs, watch, queue, task, scanLog, mqttOut,
                    workers, stoppedByName, esModules, modLoaded, moduleInits,
                    engineLog, persistentDB, boltFile, kvWritten, lastOpen, cronEntries,
                    idVars, rpcVars >>

\* the user removes a module file
RemoveModuleFile(dir, id) ==
    /\ ModulePath(dir, id) \in moduleFiles
    /\ moduleFiles' = moduleFiles \ {ModulePath(dir, id)}
    /\ UNCHANGED << cells, ruleList, nextRuleId, timers, nextTimerId, currentTimer,
                    ctxTimers, localCtxs, threads, nextCtx, srcCleanup, sources,
                    currentSource, tracker, lastTracked, disk, dirs, watch, queue, task, scanLog, mqttOut,
                    workers, stoppedByName, esModules, modLoaded, moduleInits,
                    engineLog, persistentDB, boltFile, kvWritten, lastOpen, cronEntries,
                    idVars, rpcVars >>

\* the program calls engine.SetPersistentDB(filename)
CallSetPersistentDB(filename, lockFree) ==
    /\ LET r == SetPersistentDBMode(persistentDB, filename, lockFree) IN
       /\ persistentDB' = r.db
       /\ lastOpen' = [file |-> filename, err |-> r.err]
    /\ UNCHANGED << cells, ruleList, nextRuleId, timers, nextTimerId, currentTimer,
                    ctxTimers, localCtxs, threads, nextCtx, srcCleanup, sources,
                    currentSource, tracker, lastTracked, disk, dirs, watch, queue, task, scanLog, mqttOut,
                    workers, stoppedByName, moduleFiles, esModules, modLoaded,
                    moduleInits, engineLog, boltFile, kvWritten, cronEntries,
                    idVars, rpcVars >>

\* the program calls engine.ClosePersistentDB()
CallClosePersistentDB ==
    /\ persistentDB' = ClosePersistentDB(persistentDB).db
    /\ UNCHANGED << cells, ruleList, nextRuleId, timers, nextTimerId, currentTimer,
                    ctxTimers, localCtxs, threads, nextCtx, srcCleanup, sources,
                    currentSource, tracker, lastTracked, disk, dirs, watch, queue, task, scanLog, mqttOut,
                    workers, stoppedByName, moduleFiles, esModules, modLoaded,
                    moduleInits, engineLog, boltFile, kvWritten, lastOpen, cronEntries,
                    idVars, rpcVars >>

\* EvalScript(code) with code making a storage call
EvalScriptKv(code) ==
    /\ Post(EvEvalKv(code))
    /\ UNCHANGED << engineVars, disk, dirs, watch, workers >>

\* what the log records about a storage call: the call, what it returned
\* (or that it threw), whether an error was logged
KvLine(code, db, ret, threw, logged) ==
    [k |-> "kv", code |-> code, db |-> db, ret |-> ret, threw |-> threw,
     logged |-> logged, msg |-> ""]
KvMessage(msg) == [KvLine(NoCode, NilDB, KvUndefined, FALSE, FALSE) EXCEPT
                      !.k = "log", !.msg = msg]

\* EvalScript's closure: the storage call runs in the global context; if it
\* throws, the rest of the code is not run and EvalScript returns the error
BeginEvalKv ==
    /\ task = Idle /\ queue # << >> /\ Head(queue).k = "evalkv"
    /\ LET code == Head(queue).code
           set == esPersistentSet(persistentDB, boltFile, code.bucket, code.key, code.v)
           get == esPersistentGet(persistentDB, boltFile, code.bucket, code.key)
           threw == IF code.op = "set" THEN set.threw ELSE get.threw
           logged == IF code.op = "set" THEN set.logged ELSE get.logged
           ret == IF code.op = "set" THEN KvUndefined ELSE get.v
           stored == code.op = "set" /\ ~persistentDB.nil /\ persistentDB.open
       IN /\ boltFile' = IF code.op = "set" THEN set.files ELSE boltFile
          /\ kvWritten' = IF stored
                          THEN [kvWritten EXCEPT
                                  ![persistentDB.file][<< code.bucket, code.key >>] = code.v]
                          ELSE kvWritten
          /\ engineLog' = << KvLine(code, persistentDB, ret, threw, logged) >>
                              \o (IF threw THEN << >> ELSE << KvMessage("done") >>)
    /\ task' = Task("evalkv", "done", "", NoContent, 0, {}, 0)
    /\ queue' = Tail(queue)
    /\ UNCHANGED << cells, ruleList, nextRuleId, timers, nextTimerId, currentTimer,
                    ctxTimers, localCtxs, threads, nextCtx, srcCleanup, sources,
                    currentSource, tracker, lastTracked, disk, dirs, watch, scanLog, mqttOut, workers,
                    stoppedByName, moduleFiles, esModules, modLoaded, moduleInits,
                    persistentDB, lastOpen, cronEntries,
                    idVars, rpcVars >>

\* the publish calls scripts make: none to five arguments
PubQoS == {ArgNum(0 - 1), ArgHalves(0 - 1), ArgNum(0), ArgNum(1), ArgNum(2),
           ArgHalves(5), ArgNum(3)}
PubHead == {<< ArgStr("/abc"), ArgStr("0") >>, << ArgStr("/abc"), ArgNum(1) >>,
            << ArgNum(7), ArgStr("0") >>}
PublishCalls ==
    {<< >>, << ArgStr("/abc") >>}
      \cup PubHead
      \cup {h \o << q >> : h \in PubHead, q \in PubQoS}
      \cup {h \o << q, ArgBool(r) >> : h \in PubHead, q \in PubQoS, r \in BOOLEAN}
      \cup {<< ArgStr("/abc"), ArgStr("0"), ArgNum(1), ArgBool(TRUE), ArgNum(0) >>}

EvEvalPublish(args) ==
    [Ev("evalpub", NoCell, "", 0, "") EXCEPT !.code = [op |-> "publish", args |-> args]]

\* EvalScript("publish(...)")
EvalScriptPublish(args) ==
    /\ Post(EvEvalPublish(args))
    /\ UNCHANGED << engineVars, disk, dirs, watch, workers >>

\* what the log records about a publish call
PublishLine(args, ret) == [k |-> "publish", args |-> args, ret |-> ret]

\* EvalScript's closure: the publish call runs in the global context
BeginEvalPublish ==
    /\ task = Idle /\ queue # << >> /\ Head(queue).k = "evalpub"
    /\ LET args == Head(queue).code.args
           r == esPublish(mqttOut, args)
       IN /\ mqttOut' = r.out
          /\ engineLog' = << PublishLine(args, r.ret) >>
    /\ task' = Task("evalpub", "done", "", NoContent, 0, {}, 0)
    /\ queue' = Tail(queue)
    /\ UNCHANGED << cells, ruleList, nextRuleId, timers, nextTimerId, currentTimer,
                    ctxTimers, localCtxs, threads, nextCtx, srcCleanup, sources,
                    currentSource, tracker, lastTracked, disk, dirs, watch, scanLog, workers,
                    stoppedByName, moduleFiles, esModules, modLoaded, moduleInits,
                    persistentDB, boltFile, kvWritten, lastOpen, cronEntries,
                    idVars, rpcVars >>

(***************************************************************************)
(* Local object ids: the names module code gives to its devices.           *)
(***************************************************************************)
\* md5.Sum([]byte(filename)): the 16 bytes of the digest
Md5Sum(filename) ==
    CASE filename = "d1/m.js" ->
           << 149, 229, 140, 70, 74, 244, 80, 40, 121, 12, 174, 255, 235, 19, 66, 214 >>
      [] filename = "d2/m.js" ->
           << 169, 12, 217, 225, 64, 87, 50, 123, 26, 167, 65, 120, 75, 173, 184, 74 >>
      [] OTHER ->
           << 133, 149, 51, 173, 115, 211, 233, 103, 47, 198, 55, 44, 37, 193, 99, 123 >>

\* a ^ b on bytes
RECURSIVE Xor(_, _)
Xor(a, b) ==
    IF a = 0 /\ b = 0 THEN 0
    ELSE ((a + b) % 2) + 2 * Xor(a \div 2, b \div 2)

\* the alphabet of base64.RawURLEncoding
EncodeURL ==
    << "A", "B", "C", "D", "E", "F", "G", "H", "I", "J", "K", "L", "M", "N", "O", "P",
       "Q", "R", "S", "T", "U", "V", "W", "X", "Y", "Z", "a", "b", "c", "d", "e", "f",
       "g", "h", "i", "j", "k", "l", "m", "n", "o", "p", "q", "r", "s", "t", "u", "v",
       "w", "x", "y", "z", "0", "1", "2", "3", "4", "5", "6", "7", "8", "9", "-", "_" >>

\* base64.RawURLEncoding.EncodeToString of 4 bytes: 6 characters, no padding
EncodeToString(b) ==
    LET ch(v) == EncodeURL[v + 1]
    IN ch(b[1] \div 4) \o ch((b[1] % 4) * 16 + b[2] \div 16)
         \o ch((b[2] % 16) * 4 + b[3] \div 64) \o ch(b[3] % 64)
         \o ch(b[4] \div 4) \o ch((b[4] % 4) * 16)

\* variant: the first 4 bytes of the digest, not folded
getFilenameHashNoFold(cache, filename) ==
    IF filename \in DOMAIN cache THEN [result |-> cache[filename], cache |-> cache]
    ELSE LET result == EncodeToString(SubSeq(Md5Sum(filename), 1, 4))
         IN [result |-> result, cache |-> (filename :> result) @@ cache]

\* getFilenameHash(filename): the cached hash, or the digest folded into 4
\* bytes by xor and encoded, which the cache then keeps
getFilenameHash(cache, filename) ==
    IF filename \in DOMAIN cache THEN [result |-> cache[filename], cache |-> cache]
    ELSE LET hash == Md5Sum(filename)
             fold == [i \in 1..4 |->
                        Xor(Xor(Xor(hash[i], hash[4 + i]), hash[8 + i]), hash[12 + i])]
             result == EncodeToString(fold)
         IN [result |-> result, cache |-> (filename :> result) @@ cache]

\* localObjectId(filename, objname)
localObjectId(cache, filename, objname) ==
    LET h == getFilenameHash(cache, filename)
    IN [name |-> "_" \o h.result \o objname, cache |-> h.cache]

\* the values of `this' native functions are called with: the module object
\* ModSearch gave its filename, the global object, an object whose filename
\* is not a string
ThisModule(path) == [isObject |-> TRUE, hasFilename |-> TRUE, filename |-> ArgStr(path)]
ThisGlobal == [isObject |-> TRUE, hasFilename |-> FALSE, filename |-> ArgNaN]
ThisOdd == [isObject |-> TRUE, hasFilename |-> TRUE, filename |-> ArgNum(1)]

\* maybeExpandLocalObjectId(ctx, name): in a local scope the name is replaced
maybeExpandLocalObjectId(cache, this, name) ==
    IF this.isObject /\ this.hasFilename /\ this.filename.t = "str"
    THEN localObjectId(cache, this.filename.s, name)
    ELSE [name |-> name, cache |-> cache]

\* module.virtualDeviceId(name)
esVirtualDeviceId(cache, this, args) ==
    IF Len(args) # 1 \/ args[1].t # "str"
    THEN [ret |-> RetError, name |-> "", cache |-> cache]
    ELSE LET e == maybeExpandLocalObjectId(cache, this, args[1].s)
         IN [ret |-> RetOk, name |-> e.name, cache |-> e.cache]

\* module.defineVirtualDevice(name, obj): the device is registered under the
\* expanded name
esDefineVirtualDevice(cache, devs, this, args) ==
    IF Len(args) # 2 \/ args[1].t # "str" \/ args[2].t # "obj"
    THEN [ret |-> RetError, name |-> "", cache |-> cache, devs |-> devs]
    ELSE LET e == maybeExpandLocalObjectId(cache, this, args[1].s)
         IN [ret |-> RetOk, name |-> e.name, cache |-> e.cache,
             devs |-> devs \cup {e.name}]

\* the calls module code and scripts make
ArgObj == [t |-> "obj", s |-> "", n |-> 0]
DeviceNames == {"dev", "x"}
ThisValues == {ThisModule(ModulePath(dir, "m")) : dir \in {"d1", "d2"}}
                \cup {ThisGlobal, ThisOdd}
IdCalls ==
    {[op |-> "virtualDeviceId", this |-> t, args |-> a] :
       t \in ThisValues, a \in {<< ArgStr(n) >> : n \in DeviceNames} \cup {<< >>}}
      \cup
    {[op |-> "defineVirtualDevice", this |-> t, args |-> a] :
       t \in ThisValues,
       a \in {<< ArgStr(n), ArgObj >> : n \in DeviceNames} \cup {<< ArgStr("dev") >>}}

EvIdCall(call) == [Ev("idcall", NoCell, "", 0, "") EXCEPT !.code = call]

\* code that calls virtualDeviceId or defineVirtualDevice is handed to the
\* engine task
CallLocalId(call) ==
    /\ Post(EvIdCall(call))
    /\ UNCHANGED << engineVars, disk, dirs, watch, workers >>

\* what the log records about a call: the id returned or registered
IdLine(call, ret, name) == [k |-> "id", call |-> call, ret |-> ret, name |-> name]

\* the engine task runs the call
BeginLocalId ==
    /\ task = Idle /\ queue # << >> /\ Head(queue).k = "idcall"
    /\ LET call == Head(queue).code
           r == IF call.op = "virtualDeviceId"
                THEN esVirtualDeviceId(filenameMd5s, call.this, call.args)
                       @@ [devs |-> vdevs]
                ELSE esDefineVirtualDevice(filenameMd5s, vdevs, call.this, call.args)
       IN /\ filenameMd5s' = r.cache
          /\ vdevs' = r.devs
          /\ engineLog' = << IdLine(call, r.ret, r.name) >>
    /\ task' = Task("idcall", "done", "", NoContent, 0, {}, 0)
    /\ queue' = Tail(queue)
    /\ UNCHANGED << cells, ruleList, nextRuleId, timers, nextTimerId, currentTimer,
                    ctxTimers, localCtxs, threads, nextCtx, srcCleanup, sources,
                    currentSource, tracker, lastTracked, disk, dirs, watch, scanLog, mqttOut, workers,
                    stoppedByName, moduleFiles, esModules, modLoaded, moduleInits,
                    persistentDB, boltFile, kvWritten, lastOpen, cronEntries,
                    rpcVars >>

\* the closures the engine task executes
Engine ==
    \/ BeginMqtt
    \/ ScanStep
    \/ FinishScan
    \/ Return
    \/ BeginLoad
    \/ EvalStatement
    \/ FinishEval
    \/ BeginRemove

\* saving and deleting the script at path
Files(path) ==
    \/ \E content \in ContentsOf(path) : EditFile(path, content)
    \/ DeleteFile(path)
    \/ WatcherReport(path)

\* the engine with a.js: timers, a pushbutton, a virtual device, EvalScript
NextA ==
    \/ Engine
    \/ Files("a.js")
    \/ \E c \in {SW, BTN} : MqttType(c)
    \/ \E c \in {SW, BTN} : \E raw \in RawsOf(c) : MqttValue(c, raw)
    \/ \E e \in timers : TimerTick(e)
    \/ BeginTimer
    \/ EvalScript
    \/ BeginEval

\* the engine with b.js: rules over an external switch, spawn, the editor
NextB ==
    \/ Engine
    \/ Files("b.js")
    \/ \E content \in ContentsOf("b.js") : LiveWriteScript(<< "b.js" >>, content)
    \/ MqttType(SW)
    \/ \E raw \in RawsOf(SW) : MqttValue(SW, raw)
    \/ \E w \in workers : WorkerExit(w)
    \/ BeginSpawnCb
    \/ \E w \in workers : WorkerReturn(w)

\* the closures of loads, removals and the scans they end with
Loader ==
    \/ BeginLoad
    \/ EvalStatement
    \/ FinishEval
    \/ ScanStep
    \/ FinishScan
    \/ Return
    \/ BeginRemove

\* the engine with c.js and d.js, which require modules
NextM ==
    \/ Loader
    \/ Files("c.js")
    \/ Files("d.js")
    \/ \E dir \in {"d1", "d2"} : WriteModuleFile(dir, "m")
    \/ \E dir \in {"d1", "d2"} : RemoveModuleFile(dir, "m")

\* the engine with the persistent storage and the code the editor evaluates
NextP ==
    \/ \E f \in DbFiles : \E lockFree \in BOOLEAN : CallSetPersistentDB(f, lockFree)
    \/ CallClosePersistentDB
    \/ \E code \in KvCodes : EvalScriptKv(code)
    \/ BeginEvalKv
    \/ Return

\* the engine with t.js: named and anonymous timers, started and stopped
NextT ==
    \/ Loader
    \/ Files("t.js")
    \/ \E e \in timers : TimerTick(e)
    \/ BeginTimer

\* the engine with EvalScript code that publishes
NextQ ==
    \/ \E args \in PublishCalls : EvalScriptPublish(args)
    \/ BeginEvalPublish
    \/ Return

\* the engine with e.js: whenChanged rules given a name, a function or an
\* array of one element, and callbacks that raise errors
NextE ==
    \/ Loader
    \/ Files("e.js")
    \/ BeginMqtt
    \/ \E c \in {SW, BTN} : MqttType(c)
    \/ \E c \in {SW, BTN} : \E raw \in RawsOf(c) : MqttValue(c, raw)

\* the engine with l.js, under the source root, which the editor writes
\* too, and o.js, outside of the source root
NextL ==
    \/ Loader
    \/ Files("l.js")
    \/ Files("o.js")
    \/ \E content \in EditorContents : LiveWriteScript(<< "l.js" >>, content)

\* the engine with r.js: rule definitions, good and bad, and the external
\* controls the rules watch
NextR ==
    \/ Loader
    \/ Files("r.js")
    \/ BeginMqtt
    \/ \E c \in {SW, BTN} : MqttType(c)
    \/ \E c \in {SW, BTN} : \E raw \in RawsOf(c) : MqttValue(c, raw)

\* the engine with code that names virtual devices, in modules and outside
NextH ==
    \/ \E call \in IdCalls : CallLocalId(call)
    \/ BeginLocalId
    \/ Return

\* the engine with l.js and t.js, both under the source root, and the RPC
\* thread that lists the sources
NextS ==
    \/ Loader
    \/ Files("l.js")
    \/ Files("t.js")
    \/ ListSourceFiles

\* the engine with k.js, under the source root, and p.js, outside of it,
\* whose evaluation ends with errors of all kinds
NextK ==
    \/ Loader
    \/ Files("k.js")
    \/ Files("p.js")

\* the engine with a.js and t.js, which start timers, one of them under a
\* name both use
NextN ==
    \/ Loader
    \/ Files("a.js")
    \/ Files("t.js")
    \/ \E e \in timers : TimerTick(e)
    \/ BeginTimer

\* the engine with o.js and p.js, both outside of the source root
NextO ==
    \/ Loader
    \/ Files("o.js")
    \/ Files("p.js")

\* the virtual paths the editor names: of l.js and of sub/s.js under the
\* source root, plainly and by a detour, and paths that leave the root
EditorPaths ==
    {<< "l.js" >>, << "sub", "s.js" >>, << "sub", "..", "l.js" >>,
     << "..", "rules", "l.js" >>, << ".", "sub", ".", "s.js" >>,
     << "..", "l.js" >>, << "sub", "..", "..", "o.js" >>,
     << "..", "..", "sub", "s.js" >>}

\* the engine with l.js and sub/s.js, which the editor writes under any of
\* the names it can give them
NextW ==
    \/ Loader
    \/ Files("l.js")
    \/ WatcherReport("sub/s.js")
    \/ \E path \in EditorPaths, content \in EditorContents :
          LiveWriteScript(path, content)

Next == NextA \/ NextB \/ NextM \/ NextP \/ NextT \/ NextQ \/ NextR \/ NextE \/ NextL
          \/ NextH \/ NextS \/ NextK \/ NextN \/ NextO \/ NextW

Spec == Init /\ [][Next]_vars
SpecA == Init /\ [][NextA]_vars
SpecB == Init /\ [][NextB]_vars
SpecM == Init /\ [][NextM]_vars
SpecP == Init /\ [][NextP]_vars
SpecT == Init /\ [][NextT]_vars
SpecQ == Init /\ [][NextQ]_vars
SpecH == Init /\ [][NextH]_vars
SpecS == Init /\ [][NextS]_vars
SpecK == Init /\ [][NextK]_vars
SpecN == Init /\ [][NextN]_vars
SpecO == Init /\ [][NextO]_vars
SpecW == Init /\ [][NextW]_vars
SpecR == Init /\ [][NextR]_vars
SpecE == Init /\ [][NextE]_vars
SpecL == Init /\ [][NextL]_vars

(***************************************************************************)
(* Properties.                                                             *)
(***************************************************************************)
Entries == {scanLog[i] : i \in 1..Len(scanLog)}

C2_EdgeFiresOnRisingResult ==
    \A e \in Entries :
        IsAsSoonAs(e) =>
            (e.fire <=> (IsComplete(e.seen) /\ Truthy(e.ret) /\ ~e.prevTrue))

\* an asSoonAs callback returned true again and then was not called
C2_StillTrueNotFired ==
    \E e \in Entries : /\ IsAsSoonAs(e) /\ IsComplete(e.seen) /\ Truthy(e.ret)
                       /\ e.prevTrue /\ ~e.fire

\* C3 (as the claim states it): a when rule fires in every scan that
\* evaluates it in which the callback read no incomplete cell and returned
\* a truthy value, a non-zero number included.
C3_LevelFiresOnTruthy ==
    \A e \in Entries :
        (/\ IsWhen(e)
         /\ e.cell = NoCell \/ IsComplete(e.seen)
         /\ Truthy(e.ret)) => e.fire

\* C3 (what the code does): a when rule fires iff the callback read no
\* incomplete cell and returned the boolean true.
C3_LevelFiresOnBoolTrue ==
    \A e \in Entries :
        IsWhen(e) =>
            (e.fire <=> (/\ e.cell = NoCell \/ IsComplete(e.seen)
                         /\ e.ret = BoolV(TRUE)))

\* a when callback returned the number 1 on a complete cell and then was not called
C3_TruthyNumberNotFired ==
    \E e \in Entries : /\ IsWhen(e) /\ IsComplete(e.seen) /\ e.ret = NumV("1")
                       /\ ~e.fire

C5_FiringOnlyInOwnTimerScan ==
    /\ currentTimer # NO_TIMER_NAME =>
          (task.kind = "timer" /\ task.phase = "scan" /\ task.path = currentTimer)
    /\ \A e \in Entries :
          (e.fn = "firing" /\ Truthy(e.ret)) =>
              (e.trig = "timer" /\ e.trigName = e.ftimer)

\* a rule saw timers.t.firing true and fired
C5_SawFiring ==
    \E e \in Entries : e.fn = "firing" /\ Truthy(e.ret) /\ e.fire /\ e.trig = "timer"

\* C6: once stop() of a named timer has returned, no fire of that timer is
\* posted and no scan is begun for it; a fire already pending is dropped.
C6_NoFireAfterStop ==
    [][/\ (task.phase # "scan" /\ task'.phase = "scan" /\ task'.kind = "timer")
            => task'.id \notin stoppedByName
       /\ (Len(queue') > Len(queue) /\ queue'[Len(queue')].k = "timer")
            => queue'[Len(queue')].id \notin stoppedByName]_vars

\* a fire of a timer is pending when the timer has been stopped by name
C6_PendingFireOfStoppedTimer ==
    \E i \in 1..Len(queue) : queue[i].k = "timer" /\ queue[i].id \in stoppedByName

\* C7: after a file is reloaded no rule and no timer (named or anonymous) of
\* its previous version remains, and the rules of the new version are
\* checked by the scan that ends the load.
C7_ReloadLeavesNoOldRuleOrTimer ==
    /\ \A i \in 1..Len(ruleList) : ruleList[i].ctx = localCtxs[ruleList[i].owner]
    /\ \A e \in timers : e.hook \in {localCtxs[p] : p \in Paths}
    /\ \A i \in 1..Len(ruleList) :
          ~ruleList[i].checked =>
              /\ task.path = ruleList[i].owner
              /\ task.phase = "eval" \/ (task.phase = "scan" /\ i \in task.todo)

\* a.js was loaded twice, each version started a timer and defined rules;
\* the timer and the rules of the second version are the ones left
C7_ReloadedWithTimers ==
    /\ localCtxs["a.js"] = 2 /\ nextTimerId = 3 /\ nextRuleId = 5
    /\ LiveIds(timers) = {2} /\ Len(ruleList) = 2

\* C8: within one scan the rules are checked in the order of their definition.
C8_ScanInDefinitionOrder ==
    \A i, j \in 1..Len(scanLog) : i < j => scanLog[i].id < scanLog[j].id

\* a scan checked two rules of a file that had been reloaded
C8_ScannedReloadedRules ==
    /\ Len(scanLog) >= 2
    /\ scanLog[1].id > 2

\* C9: script code runs on the engine task only, one closure at a time: no
\* spawn worker runs its callback itself, and nothing runs beside a closure.
C9_OnlyEngineTaskRunsScripts ==
    LET offTask == {w \in workers : w.pc = "callback"} IN
    /\ offTask = {}
    /\ (IF task = Idle THEN 0 ELSE 1) + Cardinality(offTask) <= 1

\* a spawn callback runs on the engine task while another closure waits
C9_SpawnCallbackOnEngineTask ==
    /\ task.kind = "spawncb" /\ queue # << >>
    /\ \E w \in workers : w.id = task.id /\ w.pc = "waiting"

\* C10: a write to a virtual cell publishes on /devices/D/controls/C and the
\* mirror holds the value when the write returns; a write to an external
\* cell publishes on /devices/D/controls/C/on and leaves the mirror as it was.
C10_WritePublishesAndMirrors ==
    \A e \in Entries :
        (e.fire /\ e.then.op = "write") =>
            LET c == e.then.cell
                topic == "/devices/" \o c[1] \o "/controls/" \o c[2]
            IN /\ Len(e.pub) = 1
               /\ e.pub[1].payload = e.then.raw
               /\ IF e.before.virtual
                  THEN /\ e.pub[1].topic = topic
                       /\ e.after.hasValue /\ e.after.raw = e.then.raw
                  ELSE /\ e.pub[1].topic = topic \o "/on"
                       /\ e.after = e.before

\* an external cell was written after a virtual cell had been
C10_WroteBothKinds ==
    /\ cells[OUT].virtual /\ cells[OUT].raw = "1"
    /\ \E e \in Entries : e.fire /\ e.then.op = "write" /\ ~e.before.virtual

Lines == {engineLog[i] : i \in 1..Len(engineLog)}

\* C11: every module object resolved to a module file receives the storage
\* object the heap stash holds for that path: the storage of a path is
\* created once and never replaced, whatever thread requires the module, and
\* two different paths never share a storage object.
C11_OneStoragePerModulePath ==
    /\ \A e \in modLoaded :
          e.storage # NoObject /\ e.storage = esModules[e.filename]
    /\ \A e1, e2 \in modLoaded :
          (e1.filename = e2.filename) <=> (e1.storage = e2.storage)
    /\ \A p1, p2 \in ModulePaths :
          (esModules[p1] # NoObject /\ esModules[p1] = esModules[p2]) => p1 = p2

\* two script threads required d2/m.js and hold one storage object, and a
\* module of another path holds another
C11_TwoThreadsShareStorage ==
    \E e1, e2, e3 \in modLoaded :
        /\ e1.ctx # e2.ctx /\ e1.filename = e2.filename /\ e1.storage = e2.storage
        /\ e3.filename # e1.filename /\ e3.storage # e1.storage

\* C12: a module search resolves to <dir>/<id>.js of the first configured
\* directory whose file can be read; with no such directory require throws:
\* a script that catches the error goes on, one that does not is aborted
\* with its error recorded, and the load goes on to the scan of the rules.
C12_FirstReadableDirOrError ==
    /\ \A l \in Lines :
          l.k = "search" =>
             /\ l.ok <=> l.readable # {}
             /\ l.ok =>
                  \E i \in l.readable :
                     /\ \A j \in l.readable : i <= j
                     /\ l.filename = modulesDirs[i] \o "/" \o l.id \o ".js"
    /\ \A i \in 1..Len(engineLog) :
          (engineLog[i].k = "search" /\ ~engineLog[i].ok) =>
             IF i < Len(engineLog)
             THEN /\ engineLog[i + 1].k = "log"
                  /\ engineLog[i + 1].msg = "Module not found"
             ELSE /\ task.kind \in {"load", "write"}
                  /\ task.phase \in {"eval", "scan", "done"}
                  /\ task.phase = "eval" =>
                        /\ task.pc = Len(Script(task.content)) + 1
                        /\ currentSource.error

\* d.js was aborted by a require that found no file, after a module was
\* resolved in d1 with d2 holding it too, and the scan that ends the load
\* has checked the rule of c.js
C12_AbortedLoadScansRules ==
    /\ \E l \in Lines : l.k = "search" /\ l.ok /\ l.readable = {1, 2}
                        /\ l.filename = "d1/m.js"
    /\ engineLog[Len(engineLog)].k = "search" /\ ~engineLog[Len(engineLog)].ok
    /\ task.path = "d.js" /\ task.phase = "scan" /\ scanLog # << >>

C14_SubmoduleThenModuleThenCaller ==
    \A s \in 1..Len(engineLog) :
        (engineLog[s].k = "search" /\ engineLog[s].ok /\ engineLog[s].id = "m") =>
           /\ Len(engineLog) >= s + 3
           /\ engineLog[s + 1].k = "log" /\ engineLog[s + 1].msg = "Module m begin"
           /\ engineLog[s + 2].k \in {"search", "cached"}
           /\ engineLog[s + 2].id = "sub" /\ engineLog[s + 2].ok
           /\ engineLog[s + 2].ctx = engineLog[s].ctx
           /\ IF engineLog[s + 2].k = "search"
              THEN /\ Len(engineLog) >= s + 4
                   /\ engineLog[s + 3].msg = "Module sub init"
                   /\ engineLog[s + 4].msg = "Module m init"
              ELSE engineLog[s + 3].msg = "Module m init"

\* c.js required m, which required sub, and then logged its own message
C14_NestedRequireThenCaller ==
    /\ Len(engineLog) >= 6
    /\ engineLog[1].k = "search" /\ engineLog[1].id = "m"
    /\ engineLog[3].k = "search" /\ engineLog[3].id = "sub"
    /\ engineLog[4].msg = "Module sub init"
    /\ engineLog[5].msg = "Module m init"
    /\ engineLog[6].msg = "Module loaded"

\* C15: with the storage open, get(bucket, key) returns the JSON round trip
\* of the value most recently set under that bucket and key (NaN comes back
\* as null), and undefined when nothing was set there, the bucket not
\* existing included; so no set changes what another (bucket, key) returns.
C15_GetReturnsLastSet ==
    \A l \in Lines :
        (l.k = "kv" /\ l.code.op = "get" /\ ~l.db.nil /\ l.db.open) =>
           LET w == kvWritten[l.db.file][<< l.code.bucket, l.code.key >>] IN
           /\ ~l.threw
           /\ l.ret = IF w = KvNaN THEN KvNull ELSE w

\* get returned the string "1" for b1/k1 while b1/k2 holds the number 1 and
\* b2/k1 was set to NaN
C15_GotStringBesideNumber ==
    \E l \in Lines :
        /\ l.k = "kv" /\ l.code = CodeGet("b1", "k1") /\ l.ret = KvStr(<< "1" >>)
        /\ kvWritten[l.db.file][<< "b1", "k2" >>] = KvNum(<< "1" >>)
        /\ kvWritten[l.db.file][<< "b2", "k1" >>] = KvNaN

\* C16 (as the claim states it): a storage call that meets an error (the
\* storage not opened, or closed so that the transaction fails) logs it and
\* returns to the script, a get with undefined; the script goes on.
C16_KvErrorLoggedNotThrown ==
    \A i \in 1..Len(engineLog) :
        LET l == engineLog[i] IN
        (l.k = "kv" /\ (l.db.nil \/ ~l.db.open)) =>
           /\ ~l.threw
           /\ l.logged
           /\ l.code.op = "get" => l.ret = KvUndefined
           /\ Len(engineLog) > i /\ engineLog[i + 1].msg = "done"

\* C16 (what the code does): with the storage not opened a storage call
\* logs the error and throws it to the script, whose remaining code is not
\* run, and nothing is stored; on a storage that has been closed a get
\* returns undefined and a set returns, neither logging anything.
C16_KvCallThrowsWhenNotOpened ==
    /\ \A i \in 1..Len(engineLog) :
          LET l == engineLog[i] IN
          l.k = "kv" =>
             IF l.db.nil
             THEN l.threw /\ l.logged /\ Len(engineLog) = i
             ELSE /\ ~l.threw /\ ~l.logged
                  /\ Len(engineLog) > i /\ engineLog[i + 1].msg = "done"
                  /\ (~l.db.open /\ l.code.op = "get") => l.ret = KvUndefined
    /\ persistentDB.nil => \A f \in DbFiles : boltFile[f] = EmptyFile

\* a get was made with the storage not opened: it threw, and the code after
\* it was not run
C16_GetThrewWithoutStorage ==
    /\ Len(engineLog) = 1
    /\ engineLog[1].k = "kv" /\ engineLog[1].code.op = "get"
    /\ engineLog[1].db.nil /\ engineLog[1].threw

\* C17: while the engine holds a persistent DB, SetPersistentDB returns an
\* error and leaves the handle and the stored data as they are; the handle
\* changes only by being closed.
C17_SecondOpenIsAnError ==
    [][~persistentDB.nil =>
          /\ persistentDB' = persistentDB
                \/ persistentDB' = [persistentDB EXCEPT !.open = FALSE]
          /\ lastOpen' # lastOpen =>
                /\ lastOpen'.err = "already opened"
                /\ persistentDB' = persistentDB
                /\ boltFile' = boltFile]_vars

\* SetPersistentDB of another file was refused while the DB was open and
\* held data
C17_RefusedWhileOpen ==
    /\ lastOpen.err = "already opened" /\ lastOpen.file # persistentDB.file
    /\ persistentDB.open
    /\ \E b \in Buckets : boltFile[persistentDB.file][b].created

(***************************************************************************)
(* Timers started and stopped by scripts (SpecT).                          *)
(***************************************************************************)
\* the interval of 1 ms, as a duration
MinInterval == MIN_INTERVAL_MS * Millisecond

\* C18 as stated: every timer started from a script has an interval of at
\* least 1 ms; a request below 1 ms gives exactly 1 ms and a request of 1 ms
\* or more is used unchanged.
C18_IntervalAtLeastOneMs ==
    \A e \in timers :
       /\ e.interval >= MinInterval
       /\ (e.req.t = "num" /\ e.req.n < MIN_INTERVAL_MS) => e.interval = MinInterval
       /\ (e.req.t = "num" /\ e.req.n >= MIN_INTERVAL_MS) =>
              e.interval = e.req.n * Millisecond

\* C18, what the code does: a request that is a number other than NaN is
\* raised to 1 ms when below it and used unchanged otherwise; a request of
\* NaN passes the comparison and gets the duration its conversion gives.
C18_NumbersClampedNaNConverted ==
    \A e \in timers :
       /\ e.req.t = "num" =>
              e.interval = (IF e.req.n < MIN_INTERVAL_MS THEN MIN_INTERVAL_MS
                            ELSE e.req.n) * Millisecond
       /\ e.req.t = "nan" => e.interval \in NaNDurations

\* a timer asked for with 0 ms runs with 1 ms beside a timer asked for with
\* NaN, whose interval is below 1 ms
C18_NaNTimerBelowOneMs ==
    /\ \E e \in timers : e.req = ArgNum(0) /\ e.interval = MinInterval
    /\ \E e \in timers : e.req = ArgNaN /\ e.interval < MinInterval

\* the step is a script's _wbStopTimer(0)
StopsByIdZero ==
    /\ task.phase = "eval" /\ task.pc <= Len(Script(task.content))
    /\ Script(task.content)[task.pc].op = "stopTimer"
    /\ Script(task.content)[task.pc].arg = ArgNum(0)
    /\ task'.pc = task.pc + 1

\* C19: the ids of timers are positive and below the id counter, which never
\* decreases; a timer that appears has an id that no earlier timer had; a
\* stop by id 0 leaves the timers, their cleanup sets and the counter alone.
C19_TimerIdsPositiveIncreasing ==
    [][/\ \A e \in timers' : e.id >= 1 /\ e.id < nextTimerId'
       /\ nextTimerId' >= nextTimerId
       /\ \A e \in timers' : e.id \notin LiveIds(timers) => e.id >= nextTimerId
       /\ StopsByIdZero => UNCHANGED << timers, nextTimerId, ctxTimers >>]_vars

\* a script started "t", called _wbStopTimer(0), which stopped nothing, and
\* started "t" again: the timer has a later id
C19_SecondStartGotLaterId ==
    /\ task.phase = "eval" /\ task.content = 6 /\ task.pc = 4
    /\ \E e \in timers : e.name = "t" /\ e.id >= 2 /\ nextTimerId > e.id

\* C20: at most one live timer has a given non-empty name, and while the
\* rules are run for a fire under a name, the timer that fired is the live
\* timer of that name.
C20_OneLiveTimerPerName ==
    /\ \A e1, e2 \in timers :
          (e1.name = e2.name /\ e1.name # NO_TIMER_NAME) => e1.id = e2.id
    /\ (task.kind = "timer" /\ task.phase = "scan" /\ task.path # NO_TIMER_NAME) =>
          /\ IdsByName(timers, task.path) = {task.id}
          /\ currentTimer = task.path

\* "t" was started again while a fire of the earlier "t" was waiting for the
\* engine task: the earlier timer is gone, the later one is the only "t"
C20_RestartedWithFirePending ==
    /\ task.phase = "eval" /\ task.content = 6 /\ task.pc = 4
    /\ \E e \in timers :
          /\ e.name = "t"
          /\ EvTimer(e.id - 1) \in Pending("timer")
          /\ e.id - 1 \notin LiveIds(timers)

(***************************************************************************)
(* publish (SpecQ).                                                        *)
(***************************************************************************)
\* the publish call the closure made
PublishCalled == Len(engineLog) = 1 /\ engineLog[1].k = "publish"
IsQoS(arg) == arg \in {ArgNum(0), ArgNum(1), ArgNum(2)}

Triggers == {"when", "asSoonAs", "whenChanged", "_cron"}
\* a whenChanged element that is not a "dev/cell" string or a function
BadElement(wc) == (wc.t = "str" /\ Len(wc.segs) < 2) \/ wc.t \notin {"str", "func"}
\* a definition the rules of defineRule reject
Rejected(def) ==
    \/ "then" \notin def.has
    \/ Cardinality(def.has \cap Triggers) # 1
    \/ /\ "whenChanged" \in def.has
       /\ IF def.whenChanged.t = "array"
          THEN \E i \in 1..Len(def.whenChanged.elems) : BadElement(def.whenChanged.elems[i])
          ELSE BadElement(def.whenChanged)
\* the kind of condition a trigger property gives
KindsOf(prop) ==
    CASE prop = "when" -> {"level"}
      [] prop = "asSoonAs" -> {"edge"}
      [] prop = "whenChanged" -> {"cellChanged", "funcChanged", "or"}
      [] OTHER -> {"cron"}

\* C22: a defineRule call with a rejected definition raises an error to the
\* script (caught by the script, or aborting it and marking the source
\* entry) and leaves the rule table and the source entry's rule list as
\* they were; any other definition adds one rule; every rule of the table
\* has the one condition of the one trigger its definition has.
C22_BadDefinitionRegistersNothing ==
    [][(/\ task.phase = "eval" /\ task.pc <= Len(Script(task.content))
        /\ Script(task.content)[task.pc].op = "defineRule"
        /\ task'.pc # task.pc) =>
          LET stmt == Script(task.content)[task.pc] IN
          /\ Rejected(stmt.def) =>
                /\ ruleList' = ruleList
                /\ currentSource'.rules = currentSource.rules
                /\ IF stmt.caught
                   THEN /\ engineLog' = Append(engineLog,
                                               Message(localCtxs[task.path], "bad rule"))
                        /\ task'.pc = task.pc + 1
                   ELSE currentSource'.error /\ task'.pc > Len(Script(task.content))
          /\ ~Rejected(stmt.def) =>
                /\ Len(ruleList') = Len(ruleList) + 1
                /\ Len(currentSource'.rules) = Len(currentSource.rules) + 1
                /\ engineLog' = engineLog
          /\ \A i \in 1..Len(ruleList') :
                \E prop \in Triggers :
                   /\ ruleList'[i].has \cap Triggers = {prop}
                   /\ ruleList'[i].cond.kind \in KindsOf(prop)]_vars

\* r.js was evaluated to its end: five definitions were rejected and caught,
\* one rule was accepted, the last definition was rejected and aborted the
\* script
C22_FiveCaughtOneAcceptedOneAborted ==
    /\ task.phase = "eval" /\ task.content = 8 /\ task.pc > Len(Script(8))
    /\ Len(engineLog) = 5
    /\ Len(ruleList) = 1 /\ ruleList[1].cond.kind = "or"
    /\ currentSource.error /\ Len(currentSource.rules) = 1

(***************************************************************************)
(* whenChanged given one trigger and given an array of that one trigger    *)
(* (e.js defines each rule of a pair right after the other).               *)
(***************************************************************************)
SinglePairs == {<< "e.js/s", "e.js/a" >>, << "e.js/fs", "e.js/fa" >>,
                << "e.js/bs", "e.js/ba" >>}

\* the rule named name waits to be checked in the scan under way
ToBeChecked(name) ==
    task.phase = "scan" /\ \E i \in task.todo : ruleList[i].name = name

\* C23: a rule whose whenChanged is an array with the single element X
\* behaves as the rule whose whenChanged is X itself: both are checked in
\* the same scans, fire in the same scans, and their then callbacks get
\* the same arguments.
C23_OneElementArrayAsSingle ==
    \A p \in SinglePairs : \A k \in 1..Len(scanLog) :
        /\ scanLog[k].name = p[1] =>
               IF k = Len(scanLog) THEN ToBeChecked(p[2])
               ELSE /\ scanLog[k + 1].name = p[2]
                    /\ scanLog[k + 1].kind = "or"
                    /\ scanLog[k + 1].fire = scanLog[k].fire
                    /\ scanLog[k].fire => scanLog[k + 1].args = scanLog[k].args
        /\ scanLog[k].name = p[2] => k > 1 /\ scanLog[k - 1].name = p[1]

\* a message changed the switch from a value the rules had seen: the rule
\* of the name and the rule of the array both fired with the cell's name,
\* the rules of the function both fired without it, and the rules of the
\* pushbutton were not candidates
C23_BothFiredOnChange ==
    /\ task.kind = "mqtt" /\ task.phase = "done"
    /\ \E k \in 1..Len(scanLog) :
          /\ scanLog[k].name = "e.js/a" /\ scanLog[k].fire
          /\ scanLog[k - 1].prevVal = BoolV(FALSE)
          /\ scanLog[k].args = << BoolV(TRUE), "e", "sw" >>
    /\ \E k \in 1..Len(scanLog) :
          /\ scanLog[k].name = "e.js/fa" /\ scanLog[k].fire
          /\ scanLog[k].args = << BoolV(FALSE), "", "" >>
    /\ \A k \in 1..Len(scanLog) : scanLog[k].name # "e.js/ba"

(***************************************************************************)
(* Loads, removals and their notices.                                      *)
(***************************************************************************)
\* what a load or a removal may rewrite
LoadedState == << ruleList, nextRuleId, timers, nextTimerId, ctxTimers, localCtxs,
                 threads, nextCtx, srcCleanup, sources, currentSource, cronEntries,
                 cells, scanLog, mqttOut, engineLog >>

\* C24: when the editor has written a script (LiveWriteScript), the load
\* the directory watcher then asks for (LiveLoadFile) finds the file's hash
\* unchanged and does nothing: no cleanup, no evaluation, no scan and no
\* "changed" notice; its closure just returns.
C24_LoadOfUnchangedFileIsNoOp ==
    [][(/\ task = Idle /\ task' # Idle
        /\ Head(queue).k = "load"
        /\ disk[Head(queue).path] # NoContent
        /\ tracker[checkSourcePath(Head(queue).path).virtualPath]
             = disk[Head(queue).path])
       => /\ task'.kind = "load" /\ task'.phase = "done"
          /\ UNCHANGED LoadedState
          /\ tracker' = tracker
          /\ mqttOut = << >> /\ scanLog = << >>]_vars

\* the watcher's load of the script the editor wrote was skipped and its
\* closure is about to return; the rule of the written script is still there
C24_SkippedLoadAfterWrite ==
    /\ task.kind = "load" /\ task.phase = "done" /\ task.path = "l.js"
    /\ tracker["l.js"] \in EditorContents /\ disk["l.js"] \in EditorContents
    /\ mqttOut = << >>
    /\ \E i \in 1..Len(ruleList) : ruleList[i].name = "l.js/edited"
    /\ sources["l.js"] # NoEntry

(***************************************************************************)
(* spawn and reloads.                                                      *)
(***************************************************************************)
\* the script whose context spawned worker w is still the one loaded
StillLoaded(w) == \E path \in threads : localCtxs[path] = w.ctx

\* the exit callback of worker w has run in the closure being executed
RanExitCallback(w) ==
    \E i \in 1..Len(engineLog) : engineLog[i] = Message(w.ctx, "exit callback")

\* C25 as claimed: the exit callback of a spawned process runs, on the
\* engine task, only if the script that spawned it has not been reloaded
\* or removed since; otherwise it is dropped.
C25_StaleExitCallbackDropped ==
    \A w \in workers :
        (task.kind = "spawncb" /\ task.id = w.id) =>
            (RanExitCallback(w) <=> StillLoaded(w))

\* C25, what the engine does: the exit callback of a spawned process always
\* runs, in a closure of the engine task while the worker waits for it,
\* whether or not the script that spawned it is still loaded.
C25_ExitCallbackAlwaysRunsOnEngineTask ==
    \A w \in workers :
        /\ w.pc # "callback"
        /\ (task.kind = "spawncb" /\ task.id = w.id) =>
              (w.pc = "waiting" /\ RanExitCallback(w))

\* the exit callback of a script that was reloaded or removed since has run
C25_StaleExitCallbackRan ==
    \E w \in workers :
        /\ task.kind = "spawncb" /\ task.id = w.id
        /\ RanExitCallback(w) /\ ~StillLoaded(w)

(***************************************************************************)
(* Script errors during a load.                                            *)
(***************************************************************************)
\* the statement of a script that throws (past the end if none does)
FailAt(content) ==
    LET sc == Script(content)
        at == {i \in 1..Len(sc) : sc[i].op = "throw"}
    IN IF at = {} THEN Len(sc) + 1 ELSE MinOf(at)

\* << line, name >> of the op statements of a script before the one that throws
ItemsBefore(content, op) ==
    LET sc == Script(content)
        IsOp(i) == sc[i].op = op
        lines == SelectSeq([i \in 1..(FailAt(content) - 1) |-> i], IsOp)
    IN [k \in 1..Len(lines) |-> << lines[k], sc[lines[k]].name >>]

\* the load under way has evaluated its script
Evaluated ==
    /\ task.kind \in {"load", "write"} /\ task.content # NoContent
    /\ task.phase \in {"scan", "done"}

\* C26: when a script under the source root throws while it is loaded, the
\* load returns a ScriptError, the engine goes on (the scan after the load
\* checks the rules that remain), and the script's source entry is listed
\* with the error and with the devices and the rules defined before the
\* failure, which stay defined.
C26_FailedScriptListedWithItems ==
    (Evaluated /\ checkSourcePath(task.path).underSourceRoot) =>
        LET e == sources[task.path]
            failed == FailAt(task.content) <= Len(Script(task.content))
        IN /\ task.err = IF failed THEN ScriptError ELSE NoError
           /\ e.virtualPath = task.path
           /\ e.error = failed
           /\ e.devices = ItemsBefore(task.content, "defineVirtualDevice")
           /\ e.rules = ItemsBefore(task.content, "defineRule")
           /\ \A k \in 1..Len(e.rules) :
                 \E i \in 1..Len(ruleList) :
                    /\ ruleList[i].name = task.path \o "/" \o e.rules[k][2]
                    /\ ruleList[i].owner = task.path
                    /\ task.phase = "done" => ruleList[i].checked
           /\ e.devices # << >> => cells[OUT].virtual

\* l.js threw after defining a device and two rules: the load is returning
\* a ScriptError after its scan, the entry lists the error and the three
C26_ThrewAfterDeviceAndRules ==
    /\ task.kind = "load" /\ task.path = "l.js" /\ task.phase = "done"
    /\ task.err = ScriptError
    /\ sources["l.js"].error
    /\ sources["l.js"].devices = << << 1, "v" >> >>
    /\ sources["l.js"].rules = << << 2, "hourly" >>, << 3, "out" >> >>
    /\ Len(scanLog) >= 2

(***************************************************************************)
(* What follows the evaluation of a file.                                  *)
(***************************************************************************)
\* the ids of the rules of rl whose definition has a cron specification
CronIds(rl) == {rl[i].id : i \in {j \in 1..Len(rl) : "_cron" \in rl[j].has}}

\* the "changed" notice of path
ChangedNotice(path) == Msg("/wbrules/updates/changed", path, 1, FALSE)

IsLoad(t) == t.kind \in {"load", "write"}

\* C27: a load (of the watcher or of the editor) that has evaluated its
\* file, with or without a script error, registers the cron rules anew and
\* scans all the rules, and after the scan publishes the file's virtual
\* path on /wbrules/updates/changed if the file is under the source root;
\* a load that is skipped or fails before the evaluation does none of this.
C27_EvaluatedLoadRefreshesThenNotifies ==
    [][/\ (IsLoad(task) /\ task.phase = "eval" /\ task'.phase # "eval") =>
            /\ task'.phase = "scan"
            /\ cronEntries' = CronIds(ruleList')
            /\ task'.todo = 1..Len(ruleList')
            /\ scanLog' = << >> /\ mqttOut' = << >>
       /\ (IsLoad(task) /\ task.phase = "scan" /\ task'.phase = "done") =>
            /\ task.todo = {}
            /\ Len(scanLog) = Len(ruleList)
            /\ mqttOut' = IF task.path \in OutsideRoot THEN mqttOut
                          ELSE Append(mqttOut, ChangedNotice(task.path))
       /\ (task = Idle /\ IsLoad(task') /\ task'.phase # "eval") =>
            /\ task'.phase = "done"
            /\ UNCHANGED << cronEntries, ruleList, scanLog, mqttOut >>
       /\ (IsLoad(task) /\ task.phase = "done" /\ task' = task) =>
            UNCHANGED << cronEntries, ruleList, scanLog, mqttOut >>
       /\ (IsLoad(task) /\ task.phase = "scan" /\ task'.phase = "scan") =>
            /\ \A i \in 1..Len(mqttOut') : mqttOut'[i] # ChangedNotice(task.path)
            /\ cronEntries' = cronEntries
      ]_vars

\* l.js threw after defining a cron rule: the rule is registered with the
\* cron driver, all the rules were scanned and the notice is published
C27_NoticeAfterFailedLoad ==
    /\ task.kind = "load" /\ task.phase = "done" /\ task.err = ScriptError
    /\ task.path = "l.js"
    /\ cronEntries # {} /\ cronEntries = CronIds(ruleList)
    /\ Len(scanLog) = Len(ruleList) /\ Len(ruleList) >= 2
    /\ mqttOut = << ChangedNotice("l.js") >>

(***************************************************************************)
(* whenChanged arrays of several elements: r.js defines the rule "any" with*)
(* whenChanged: ["e/sw", function () { return dev["e"]["btn"]; }].         *)
(***************************************************************************)
AnyRule == "r.js/any"
AnyElems == Script(8)[6].def.whenChanged.elems

\* the value the i-th element of AnyElems has on cells cs (Nil while its
\* cell is incomplete), and the cell it reads
ElemCell(i) == IF i = 1 THEN SW ELSE BTN
ElemDefined(cs, i) == IsComplete(cs[ElemCell(i)])
ElemValue(cs, i) == CellValue(cs[ElemCell(i)])

\* the i-th element changed since the rule's previous check
ElemChanged(e, i) == ElemDefined(e.cells, i) /\ ElemValue(e.cells, i) # e.prev[i]

\* C28: the rule of a whenChanged array of several elements has one child
\* condition per element, in the declared order; in a scan that checks it
\* the rule fires iff at least one child fires, every child is evaluated
\* (its stored value is brought up to date even when an earlier child
\* fired), and the rule's dependencies are the cells of all the children.
C28_ArrayFiresOnAnyChildAllEvaluated ==
    /\ \A i \in 1..Len(ruleList) :
          ruleList[i].name = AnyRule =>
             /\ ruleList[i].cond.kind = "or"
             /\ Len(ruleList[i].cond.children) = Len(AnyElems)
             /\ ruleList[i].cond.children[1] = NewCellChangedRuleCondition(SW)
             /\ ruleList[i].cond.children[2] =
                    NewFuncValueChangedRuleCondition(AnyElems[2].f)
             /\ ruleList[i].checked => ruleList[i].deps = {SW, BTN}
    /\ \A e \in Entries :
          e.name = AnyRule =>
             /\ e.fire <=> \E i \in 1..Len(AnyElems) : ElemChanged(e, i)
             /\ Len(e.last) = Len(AnyElems)
             /\ \A i \in 1..Len(AnyElems) :
                   e.last[i] = IF ElemDefined(e.cells, i) THEN ElemValue(e.cells, i)
                               ELSE e.prev[i]
             /\ e.deps = {SW, BTN}

\* the first child fired and the second was evaluated all the same: it
\* fired too and its stored value changed
C28_SecondChildEvaluatedAfterFirstFired ==
    \E e \in Entries :
        /\ e.name = AnyRule /\ e.fire
        /\ ElemChanged(e, 1) /\ ElemChanged(e, 2)
        /\ e.last[2] # e.prev[2]

(***************************************************************************)
(* Callbacks that raise errors: e.js defines "boom", whose then throws, and*)
(* "cboom", whose condition throws, before its other rules.                *)
(***************************************************************************)
\* the check recorded by e raised a script error
Threw(e) == (e.fire /\ e.then.op = "throw") \/ e.fn = "throw"

ErrorLines == {i \in 1..Len(engineLog) : engineLog[i].k = "error"}

\* C29: when the then callback or the condition of a rule raises a script
\* error during a scan, the error is written to the error log, the rules
\* that follow it among the candidates are still checked, in order, and
\* the rule stays in the rule table, a candidate of later scans.
C29_ErrorLoggedScanGoesOn ==
    /\ Cardinality(ErrorLines) =
          Cardinality({k \in 1..Len(scanLog) : Threw(scanLog[k])})
    /\ \A k \in 1..Len(scanLog) :
          Threw(scanLog[k]) =>
             /\ \E i \in ErrorLines : engineLog[i].ctx = localCtxs["e.js"]
             /\ \E i \in 1..Len(ruleList) :
                   /\ ruleList[i].id = scanLog[k].id
                   /\ ruleList[i].name = scanLog[k].name
                   /\ SW \in ruleList[i].deps
             /\ \A i \in 1..Len(ruleList) :
                   (ruleList[i].id > scanLog[k].id /\ SW \in ruleList[i].deps) =>
                      \/ ToBeChecked(ruleList[i].name)
                      \/ \E j \in (k + 1)..Len(scanLog) :
                            scanLog[j].id = ruleList[i].id

\* a message changed the switch: the then of "boom", which had thrown when
\* the switch was first seen, threw again, the condition of "cboom", checked
\* before, threw too, both errors are logged and the six rules that watch
\* the switch were all checked
C29_ThrewAgainAndScanCompleted ==
    /\ task.kind = "mqtt" /\ task.phase = "done"
    /\ Len(scanLog) = 6
    /\ scanLog[1].name = "e.js/boom" /\ Threw(scanLog[1])
    /\ scanLog[1].prev # << Nil >>
    /\ scanLog[2].name = "e.js/cboom" /\ Threw(scanLog[2]) /\ scanLog[2].checked
    /\ scanLog[3].fire /\ ~Threw(scanLog[3])
    /\ Cardinality(ErrorLines) = 2

(***************************************************************************)
(* Removal of a script.                                                    *)
(***************************************************************************)
RemovedNotice(path) == Msg("/wbrules/updates/removed", path, 1, FALSE)

\* nothing of the script at path is left: no timer of its context, no rule
\* of its scope, no thread, no source entry
CleanedUp(path) ==
    /\ \A e \in timers : e.hook # localCtxs[path]
    /\ \A i \in 1..Len(ruleList) : ruleList[i].owner # path
    /\ path \notin threads
    /\ sources[path] = NoEntry

\* C30: the closure of LiveRemoveFile(path) first cleans up the path (its
\* timers are stopped, its rules and its source entry removed), then scans
\* all the rules that remain, then publishes the virtual path on
\* /wbrules/updates/removed if the path is under the source root; the
\* notice is in no state published while something of the script is left.
C30_RemoveCleansScansThenNotifies ==
    [][/\ (task = Idle /\ task'.kind = "remove") =>
            /\ task'.phase = "scan"
            /\ task'.path = Head(queue).path
            /\ task'.todo = 1..Len(ruleList')
            /\ cronEntries' = CronIds(ruleList')
            /\ scanLog' = << >> /\ mqttOut' = << >>
       /\ (task.kind = "remove" /\ task.phase = "scan" /\ task'.phase = "scan") =>
            \A i \in 1..Len(mqttOut') : mqttOut'[i] # RemovedNotice(task.path)
       /\ (task.kind = "remove" /\ task.phase = "scan" /\ task'.phase = "done") =>
            /\ task.todo = {}
            /\ Len(scanLog) = Len(ruleList)
            /\ mqttOut' = IF task.path \in OutsideRoot THEN mqttOut
                          ELSE Append(mqttOut, RemovedNotice(task.path))
       /\ task.kind = "remove" => CleanedUp(task.path)
       /\ (\E i \in 1..Len(mqttOut) : mqttOut[i] = RemovedNotice(task.path)) =>
            (task.kind = "remove" /\ task.phase = "done")
      ]_vars

\* l.js, which had started a timer and defined two rules, was removed while
\* the rules of o.js remain: they were scanned, and the notice is published
C30_RemovedScriptWithTimerAndRules ==
    /\ task.kind = "remove" /\ task.phase = "done" /\ task.path = "l.js"
    /\ localCtxs["l.js"] # NoCtx /\ tracker["l.js"] = 11
    /\ CleanedUp("l.js")
    /\ Len(ruleList) >= 1 /\ Len(scanLog) = Len(ruleList)
    /\ mqttOut = << RemovedNotice("l.js") >>

(***************************************************************************)
(* Local object ids of module code (SpecH).                                *)
(***************************************************************************)
\* the 6 characters that stand for the file of a module
FileHash(filename) == IF filename = "d1/m.js" THEN "TQ4wRw" ELSE "uFESqA"

\* the id a name stands for in the scope of this
ScopedId(this, name) ==
    IF this.hasFilename /\ this.filename.t = "str"
    THEN "_" \o FileHash(this.filename.s) \o name
    ELSE name

\* the call the engine task has just run
IdCallDone == task.kind = "idcall" /\ task.phase = "done"
LastIdCall == engineLog[1].call

\* C31: in the scope of a module a name stands for "_" + H + name, where H
\* depends on the path of the module file only, whether the hash cache holds
\* the path or not; virtualDeviceId(name) returns the id under which
\* defineVirtualDevice(name) registers the device; a `this' without a
\* string filename keeps the raw name.
C31_ModuleNamesArePrefixedByFileHash ==
    /\ \A f \in DOMAIN filenameMd5s : filenameMd5s[f] = FileHash(f)
    /\ IdCallDone =>
         LET line == engineLog[1]
             call == line.call
         IN line.ret = RetOk =>
              /\ line.name = ScopedId(call.this, call.args[1].s)
              /\ call.op = "defineVirtualDevice" =>
                   /\ line.name \in vdevs
                   /\ esVirtualDeviceId(filenameMd5s, call.this,
                                        << call.args[1] >>).name = line.name
                   /\ esVirtualDeviceId([f \in {} |-> ""], call.this,
                                        << call.args[1] >>).name = line.name
              /\ call.op = "virtualDeviceId" =>
                   line.name = esDefineVirtualDevice(filenameMd5s, vdevs, call.this,
                                                     << call.args[1], ArgObj >>).name

\* virtualDeviceId("dev") called in d1/m.js, with the hash in the cache,
\* returned the id of the device the module had defined, while the device
\* of the same name of d2/m.js and the global one are registered too
C31_ModuleAskedForItsDeviceId ==
    /\ IdCallDone /\ LastIdCall.op = "virtualDeviceId"
    /\ LastIdCall.this = ThisModule("d1/m.js")
    /\ engineLog[1].name = "_TQ4wRwdev"
    /\ {"_TQ4wRwdev", "_uFESqAdev", "dev"} \subseteq vdevs
    /\ DOMAIN filenameMd5s = {"d1/m.js", "d2/m.js"}

(***************************************************************************)
(* The script contexts after a removal (SpecL).                            *)
(***************************************************************************)
\* runCleanups(path) finds a context to clean up
FindsContext(path) == localCtxs[path] # NoCtx

\* C32 as stated: after LiveRemoveFile(path) neither the map from paths to
\* contexts nor the thread list of the heap stash has an entry for the
\* path, so that a second cleanup of the path finds no context.
C32_RemovalForgetsContext ==
    task.kind = "remove" => (~FindsContext(task.path) /\ task.path \notin threads)

\* C32, what the code does: the removal takes the thread of the path from
\* the thread list and leaves the map from paths to contexts as it was; an
\* entry of that map is never deleted, so that every later cleanup of a
\* path that was loaded once finds its last context.
C32_RemovalKeepsContextEntry ==
    [][/\ (task = Idle /\ task'.kind = "remove") =>
            /\ localCtxs' = localCtxs
            /\ threads' = threads \ {Head(queue).path}
       /\ \A p \in Paths : FindsContext(p) => FindsContext(p)'
       /\ \A p \in threads : FindsContext(p)
      ]_vars

\* l.js was loaded once and removed: its thread is gone, its context is
\* still in the map
C32_ContextLeftAfterRemoval ==
    /\ task.kind = "remove" /\ task.phase = "done" /\ task.path = "l.js"
    /\ "l.js" \notin threads
    /\ localCtxs["l.js"] = 1 /\ nextCtx = 2

(***************************************************************************)
(* The list of the sources the RPC thread reads (SpecS).                   *)
(***************************************************************************)
\* list is in ascending order, without repetitions
Ascending(list) == \A i, j \in DOMAIN list : i < j => Less(list[i], list[j])

\* the script at path is being evaluated
Evaluating(path) == task.kind \in {"load", "write"} /\ task.phase = "eval"
                      /\ task.path = path

\* C33: engine.sources is read and changed under sourcesMtx only: the engine
\* task changes it only while the RPC thread does not hold the mutex, and
\* what ListSourceFiles has collected is at every moment of the call a
\* snapshot of the map as it is: the virtual paths of all its entries in
\* ascending order, and for each path copied so far the entry of that path;
\* the map holds entries of finished loads only, none of a script that is
\* being evaluated.
C33_ListIsSortedSnapshotUnderMutex ==
    [][/\ sources' # sources => sourcesMtx = MtxFree
       /\ listing.pc # "idle" <=> sourcesMtx = "rpc"
       /\ listing.pc = "copy" =>
            /\ Ascending(listing.pathList)
            /\ {listing.pathList[n] : n \in DOMAIN listing.pathList} = SourceKeys(sources)
            /\ \A n \in DOMAIN listing.entries :
                 /\ listing.entries[n] = sources[listing.pathList[n]]
                 /\ listing.entries[n].virtualPath = listing.pathList[n]
       /\ \A p \in SourceKeys(sources) : ~Evaluating(p)
      ]_vars

\* ListSourceFiles has copied the entries of l.js and t.js, in this order,
\* while the removal of l.js waits for the engine task
C33_ListedTwoWhileReloadWaits ==
    /\ listing.pc = "copy"
    /\ listing.pathList = << "l.js", "t.js" >> /\ Len(listing.entries) = 2
    /\ listing.entries[1].rules # << >>
    /\ task = Idle /\ queue # << >> /\ Head(queue).k = "remove" /\ Head(queue).path = "l.js"

(***************************************************************************)
(* The traceback of a script error (SpecK).                                *)
(***************************************************************************)
\* the positions of the frames of a traceback that lie under the source root
UnderRootFrames(tb) ==
    {i \in DOMAIN tb : \E p \in Paths \ OutsideRoot : tb[i].filename = "/rules/" \o p}

\* the n-th of them
NthUnderRoot(tb, n) ==
    CHOOSE i \in UnderRootFrames(tb) :
      Cardinality({j \in UnderRootFrames(tb) : j < i}) = n - 1

\* out is tb without the frames outside of the source root, the others in
\* their order, with their lines, named by their paths relative to the root
IsTranslationOf(out, tb) ==
    /\ Len(out) = Cardinality(UnderRootFrames(tb))
    /\ \A n \in DOMAIN out :
         /\ out[n].line = tb[NthUnderRoot(tb, n)].line
         /\ "/rules/" \o out[n].name = tb[NthUnderRoot(tb, n)].filename

\* the source entry of the script the task loads, while and after the load
EntryOf(path) == IF currentSource # NoEntry THEN currentSource ELSE sources[path]

\* the load the task is in has got past the statement that raises
Raising == task.kind = "load" /\ task.content = 13
             /\ (task.phase # "eval" \/ task.pc > 2)

\* C34: the traceback of the ScriptError a load returns holds exactly the
\* frames of the script error that lie under the source root, in their
\* order, each with its line and with the path relative to the root in
\* place of the file name; the entry of a script under the root records the
\* same traceback; an error that is not a script error is returned as it
\* is and is not recorded in the entry.
C34_TracebackKeepsFramesUnderRoot ==
    Raising =>
      LET e == task.thrown
          entry == EntryOf(task.path)
      IN IF e.kind = "ESError"
         THEN /\ task.err = ScriptError
              /\ IsTranslationOf(task.traceback, e.traceback)
              /\ task.path \notin OutsideRoot =>
                   (entry.error /\ entry.traceback = task.traceback)
              /\ task.path \in OutsideRoot => entry = NoEntry
         ELSE /\ task.err = e.kind /\ task.traceback = << >>
              /\ ~entry.error /\ entry.traceback = << >>

\* k.js raised an error with frames of a library, of l.js and of itself:
\* the load returned a ScriptError with the frames of l.js and k.js
C34_LibraryFramesDropped ==
    /\ Raising /\ task.phase = "done" /\ task.path = "k.js"
    /\ Len(task.thrown.traceback) = 4
    /\ task.traceback = << LocItem(3, "l.js"), LocItem(2, "k.js") >>
    /\ sources["k.js"].traceback = task.traceback

(***************************************************************************)
(* The timers and rules of a script and those of the others (SpecN).       *)
(***************************************************************************)
\* the step is the cleanup of the path at the head of the queue: the start
\* of a load that goes on to evaluate, or of a removal
CleansUp ==
    /\ task = Idle
    /\ \/ task'.kind = "remove"
       \/ task'.kind \in {"load", "write"} /\ task'.phase = "eval"

\* C35: the cleanup that a reload or a removal of a script runs stops the
\* timers that the context of this script started and no other, and removes
\* the rules of this script and no other: the timers and the rules of all
\* the other scripts are as they were, a named timer another script started
\* under a name this script had used before among them.
C35_CleanupTouchesOwnTimersAndRulesOnly ==
    [][CleansUp =>
         LET path == Head(queue).path
             OfOthers(r) == r.owner # path
         IN /\ timers' = {e \in timers : e.by # localCtxs[path]}
            /\ ruleList' = SelectSeq(ruleList, OfOthers)
      ]_vars

\* a.js, which had started the timer t, was removed after t.js had started
\* its own timer t: the timer of t.js is alive and the rule of t.js is there
C35_OtherScriptsTimerOfSameNameAlive ==
    /\ task.kind = "remove" /\ task.phase = "done" /\ task.path = "a.js"
    /\ tracker["a.js"] = 1 /\ localCtxs["a.js"] = 1 /\ localCtxs["t.js"] = 2
    /\ \E e \in timers : e.name = "t" /\ e.by = 2 /\ e.id = 3
    /\ \E i \in 1..Len(ruleList) : ruleList[i].owner = "t.js"
    /\ \A i \in 1..Len(ruleList) : ruleList[i].owner # "a.js"

\* the ids of the timers alive that the context ctx started
AliveOf(ctx) == {e.id : e \in {x \in timers : x.by = ctx}}

\* C36: the set of timer ids the engine keeps for a script context holds at
\* every moment exactly the ids of the timers alive that this context
\* started: an id is added when the timer is started and removed when it
\* dies, whatever it dies of; so the cleanup of a context stops no id that
\* is dead and no timer of another context.
C36_ContextSetIsItsAliveTimers ==
    [][/\ \A ctx \in DOMAIN ctxTimers : ctxTimers[ctx] = AliveOf(ctx)
       /\ \A e \in timers : e.by \in DOMAIN ctxTimers
       /\ CleansUp =>
            LET ctx == localCtxs[Head(queue).path]
            IN LiveIds(timers) \ LiveIds(timers')
                 = IF ctx \in DOMAIN ctxTimers THEN ctxTimers[ctx] ELSE {}
      ]_vars

\* of the three timers the context of t.js started, one was stopped by its
\* name and one has fired its only time: the set holds the third alone
C36_TwoOfThreeDied ==
    /\ tracker["t.js"] = 7 /\ localCtxs["t.js"] = 1
    /\ task.kind = "timer" /\ task.phase = "done" /\ task.id = 3
    /\ nextTimerId = 4
    /\ ctxTimers[1] = {1} /\ LiveIds(timers) = {1}

(***************************************************************************)
(* Change detection (SpecL, SpecO).                                        *)
(***************************************************************************)
\* the step starts the closure of LiveLoadFile(path) for a file that is there
LiveLoads(path) ==
    /\ task = Idle /\ task' # Idle
    /\ Head(queue).k = "load" /\ Head(queue).path = path
    /\ disk[path] # NoContent

\* the key under which the content tracker records the file at path
TrackKey(path) == checkSourcePath(path).virtualPath

\* C37 as stated: LiveLoadFile on a file whose script is not loaded, because
\* it was removed, loads the script, also when the file was created again
\* with the content it had before: the hash recorded before the removal
\* does not make the load skip the file.
C37_RecreatedScriptLoadsAgain ==
    [][\A path \in Paths :
         (LiveLoads(path) /\ path \notin threads) => task'.phase = "eval"]_vars

\* C37, what the code does: a removal leaves the content tracker as it was,
\* and LiveLoadFile evaluates the file exactly when its content differs from
\* the content recorded under its key, whether the script is loaded or not.
C37_RecordedHashSurvivesRemoval ==
    [][/\ (task = Idle /\ task'.kind = "remove") => tracker' = tracker
       /\ \A path \in Paths :
            LiveLoads(path) =>
              (task'.phase = "eval" <=> tracker[TrackKey(path)] # disk[path])
      ]_vars

\* l.js was loaded, removed and created again with the same content: the
\* load was skipped, nothing of the script is registered
C37_RecreatedScriptSkipped ==
    /\ task.kind = "load" /\ task.phase = "done" /\ task.err = NoError
    /\ task.path = "l.js" /\ disk["l.js"] = 11 /\ tracker["l.js"] = 11
    /\ localCtxs["l.js"] # NoCtx /\ "l.js" \notin threads
    /\ sources["l.js"] = NoEntry
    /\ \A i \in 1..Len(ruleList) : ruleList[i].owner # "l.js"
    /\ \A e \in timers : e.by # localCtxs["l.js"]

\* C38 as stated: whether LiveLoadFile treats a file as changed depends on
\* the content of the file and on the content recorded at the previous load
\* of this same file only, under the source root and outside of it.
C38_ChangeDetectionPerFile ==
    [][\A path \in Paths :
         LiveLoads(path) =>
           (task'.phase = "eval" <=> lastTracked[path] # disk[path])]_vars

\* C38, what the code does: the content is compared with, and recorded
\* under, the virtual path of the file, which is the file's own path under
\* the source root and the empty string for every file outside of it: a
\* file outside of the root is compared with the outside file tracked last.
C38_ChangeDetectionPerVirtualPath ==
    [][/\ \A path \in Paths :
            LiveLoads(path) =>
              /\ task'.phase = "eval" <=> tracker[TrackKey(path)] # disk[path]
              /\ tracker' = [tracker EXCEPT ![TrackKey(path)] = disk[path]]
       /\ \A path \in Paths \ OutsideRoot :
            TrackKey(path) = path /\ tracker[path] = lastTracked[path]
       /\ \A path \in OutsideRoot : TrackKey(path) = ""
       /\ tracker[""] \in {lastTracked[path] : path \in OutsideRoot}
      ]_vars

\* o.js is loaded; the first load of p.js, which has the same content, was
\* skipped: p.js has never been evaluated
C38_FirstLoadOfOutsideFileSkipped ==
    /\ task.kind = "load" /\ task.phase = "done" /\ task.err = NoError
    /\ task.path = "p.js" /\ disk["p.js"] = 10 /\ tracker[""] = 10
    /\ localCtxs["p.js"] = NoCtx /\ "p.js" \notin threads
    /\ "o.js" \in threads /\ lastTracked["o.js"] = 10

(***************************************************************************)
(* Writes of the editor to a path outside of the source root.              *)
(***************************************************************************)
\* the virtual paths of EditorPaths that lead out of the source root
Escaping ==
    {<< "..", "l.js" >>, << "sub", "..", "..", "o.js" >>,
     << "..", "..", "sub", "s.js" >>}

\* the step is the engine task running LiveWriteScript's closure
WriteRuns == task = Idle /\ queue # << >> /\ Head(queue).k = "write" /\ task' # Idle

\* C39: LiveWriteScript with a virtual path that does not resolve to a
\* location under the source root returns an error and has no effect: no
\* directory is made, no file is written, no script is loaded or cleaned
\* up, nothing is recorded, and no notice is published
C39_EscapingWriteRejectedWithoutEffect ==
    /\ [][(WriteRuns /\ Head(queue).code \in Escaping) =>
             /\ task'.phase = "done" /\ task'.err = PathError
             /\ UNCHANGED << disk, dirs, watch, tracker, lastTracked, threads,
                             localCtxs, ruleList, timers, ctxTimers, sources,
                             srcCleanup, currentSource, cells, mqttOut >>]_vars
    /\ [][(WriteRuns /\ Head(queue).code \notin Escaping) =>
             task'.err # PathError /\ disk'[task'.path] = Head(queue).id]_vars
    /\ [](task.err = PathError => mqttOut = << >>)

\* a write that leaves the root was rejected after the editor had made
\* sub/s.js, which is loaded
C39_EscapingWriteRejected ==
    /\ task.kind = "write" /\ task.err = PathError
    /\ "sub/s.js" \in threads /\ << "rules", "sub" >> \in dirs
    /\ disk["sub/s.js"] \in EditorContents

(***************************************************************************)
(* The lifecycle of the persistent DB handle (SpecP).                      *)
(***************************************************************************)
\* the storage calls the closure being executed made on a handle that had
\* been closed
OnClosed == {i \in 1..Len(engineLog) :
                engineLog[i].k = "kv" /\ ~engineLog[i].db.open}

\* C40 (as the claim states it): a DB that has been closed counts as not
\* opened: the engine holds either no handle or an open one, and a storage
\* call made while no DB is open is rejected as 'not initialized' (logged and
\* thrown).
C40_ClosedCountsAsUnopened ==
    /\ persistentDB.nil \/ persistentDB.open
    /\ \A i \in OnClosed : engineLog[i].threw /\ engineLog[i].logged

\* C40 (what the code does): the handle goes from unopened to open by a
\* SetPersistentDB that succeeds and a failed open leaves it unopened, but
\* ClosePersistentDB keeps the handle of the DB it closed: from then on the
\* handle never changes, every SetPersistentDB returns 'already opened', and
\* a storage call is not rejected: it runs on the closed DB, stores nothing
\* and returns undefined without an error being logged.
C40_ClosedHandleIsKept ==
    /\ [][(persistentDB.nil /\ lastOpen' # lastOpen) =>
             IF lastOpen'.err = ""
             THEN persistentDB' = BoltDB(lastOpen'.file)
             ELSE lastOpen'.err = "can't open" /\ persistentDB' = NilDB]_vars
    /\ [][(persistentDB.open /\ ~persistentDB'.open) =>
             persistentDB' = [persistentDB EXCEPT !.open = FALSE]]_vars
    /\ [][(~persistentDB.nil /\ ~persistentDB.open) =>
             /\ persistentDB' = persistentDB
             /\ boltFile' = boltFile
             /\ (lastOpen' # lastOpen => lastOpen'.err = "already opened")]_vars
    /\ [](\A i \in OnClosed :
             LET l == engineLog[i] IN
             ~l.db.nil =>
                /\ ~l.threw /\ ~l.logged
                /\ (l.code.op = "get" => l.ret = KvUndefined))

\* after the DB was closed a set ran on the closed handle without an error,
\* the value is not in the file, and the last SetPersistentDB was refused
C40_SetOnClosedHandle ==
    /\ OnClosed # {}
    /\ LET l == engineLog[1] IN
        /\ l.code.op = "set" /\ ~l.db.nil /\ ~l.threw
        /\ ~boltFile[l.db.file][l.code.bucket].created
    /\ ~persistentDB.nil /\ ~persistentDB.open
    /\ lastOpen.err = "already opened"

=============================================================================
